---- MODULE Spec2Model ----
(***************************************************************************)
(* State-machine model of the OBPP hybrid compliance backend (src/app.py): *)
(* text chunking, deterministic field evaluation, judge perception,        *)
(* perception merging, chunk aggregation, guideline scoring, multi-        *)
(* guideline aggregation, and the two request handlers around them.        *)
(*                                                                         *)
(* Numbers.  Confidences and percentages are two-decimal quantities in the *)
(* source; the model keeps them as integers counted in hundredths          *)
(* (0.9 is 90, 95.0 is 9500).                                              *)
(*                                                                         *)
(* Text.  A chunk is a sequence of distinct phrases of Vocabulary, joined  *)
(* by single spaces.  Every regular expression of the source is modelled   *)
(* by its match table over Vocabulary: the set of <<phrase, group(0)>>     *)
(* pairs that re.search yields on the phrase.  On the vocabulary the       *)
(* tables compose: the leftmost match in a chunk is the match of the first *)
(* phrase that matches.                                                    *)
(***************************************************************************)
EXTENDS Integers, Sequences, FiniteSets, TLC

VARIABLES
    pc,                \* position in check_text / check_compliance
    client,            \* whether the judge client is configured (src/app.py:31)
    selected,          \* selected_guidelines
    has_input,         \* whether the request carries a file or text
    chunks,            \* chunks of the document being checked
    det,               \* get_deterministic(...) of the chunk last processed
    llm_perc,          \* the perception used for the chunk last processed
    requests,          \* the judge requests issued for the chunk last processed
    merged_per_chunk,  \* check_compliance: merged_per_chunk
    final,             \* check_compliance: final
    guideline_evals,   \* check_compliance: guideline_evals
    report,            \* the ComplianceReport returned by aggregate_results
    ct_pc,             \* position in chunk_text
    text,              \* chunk_text: text, a sequence of characters
    chunk_size,        \* chunk_text: chunk_size
    overlap,           \* chunk_text: overlap
    ct_words,          \* chunk_text: words
    start,             \* chunk_text: start
    ct_chunks,         \* chunk_text: chunks
    endpoint,          \* the route of the request: "check-text" or "classify-text"
    guideline_types,   \* check_text: the form field guideline_types
    upload,            \* what the request carries: "file", "text" or "none"
    temp_path,         \* the handler's temp_path: "None" or "tmp"
    temp_exists,       \* whether the file at temp_path is on disk
    types,             \* classify_text: types
    detected,          \* classify_endpoint: the detected_type returned
    lg_pc,             \* position in the legacy check_compliance
    input_text,        \* legacy: what extract_text_from_file yields for the file
    lg_chunk_size,     \* legacy check_compliance: chunk_size
    lg_plan,           \* legacy: what embedding, query and judge do per chunk
    lg_chunks,         \* legacy check_compliance: chunks
    chunk_idx,         \* legacy check_compliance: chunk_idx
    file_chunks,       \* legacy check_compliance: file_results['chunks']
    total_score,       \* legacy check_compliance: total_score
    all_what_is_right, \* legacy check_compliance: all_what_is_right
    all_improvements,  \* legacy check_compliance: all_improvements
    all_anomalies,     \* legacy check_compliance: all_anomalies
    overall_results    \* legacy check_compliance: the entry appended for the file

\* the variables of check_text / check_compliance
core_vars == <<pc, client, selected, has_input, chunks, det, llm_perc, requests,
               merged_per_chunk, final, guideline_evals, report>>

\* the variables of a call of chunk_text
ct_vars == <<ct_pc, text, chunk_size, overlap, ct_words, start, ct_chunks>>

\* the variables of the two request handlers around the pipeline
ep_vars == <<endpoint, guideline_types, upload, temp_path, temp_exists, types, detected>>

\* the variables of the legacy text flow (src/jswcentura_backend/app.py)
lg_vars == <<lg_pc, input_text, lg_chunk_size, lg_plan, lg_chunks, chunk_idx,
             file_chunks, total_score, all_what_is_right, all_improvements,
             all_anomalies, overall_results>>

\* what a step of check_compliance leaves alone
other_vars == <<ct_vars, ep_vars, lg_vars>>

vars == <<core_vars, ct_vars, ep_vars, lg_vars>>

(***************************************************************************)
(* Generic helpers                                                         *)
(***************************************************************************)
Min(S) == CHOOSE x \in S : \A y \in S : x <= y
Max(S) == CHOOSE x \in S : \A y \in S : x >= y
Range(sq) == {sq[i] : i \in DOMAIN sq}

Abs(x) == IF x < 0 THEN -x ELSE x

RECURSIVE SumSeq(_)
SumSeq(sq) == IF sq = <<>> THEN 0 ELSE Head(sq) + SumSeq(Tail(sq))

RECURSIVE Flatten(_)
\* sum(list_of_lists, []) of the source
Flatten(sqs) == IF sqs = <<>> THEN <<>> ELSE Head(sqs) \o Flatten(Tail(sqs))

\* the function f written out as an explicit table of its values
RECURSIVE TableFrom(_, _)
TableFrom(f, S) ==
    IF S = {} THEN <<>>
    ELSE LET k == CHOOSE x \in S : TRUE
         IN  (k :> f[k]) @@ TableFrom(f, S \ {k})

Table(f) == TableFrom(f, DOMAIN f)

\* Python's  t in s  on strings
Contains(str, t) ==
    \E i \in 1..(Len(str) - Len(t) + 1) : SubSeq(str, i, i + Len(t) - 1) = t

StartsWith(str, t) == Len(str) >= Len(t) /\ SubSeq(str, 1, Len(t)) = t

(***************************************************************************)
(* Configuration: thresholds and guideline codes                           *)
(***************************************************************************)
PASS_THRESHOLD == 9500
WARN_THRESHOLD == 8000

ASCI_CODE == "asci"
AMFI_CODE == "amfi"
STOCK_CODE == "stock"

(***************************************************************************)
(* Text model                                                              *)
(***************************************************************************)
Vocabulary ==
    { "ARN-12345",
      "mutual funds are subject to market risk",
      "investments are subject to market risk",
      "SEBI Reg No: INZ000123",
      "guaranteed 12% returns",
      "assured returns",
      "fixed returns",
      "source: XYZ survey",
      "visit www.example.com",
      "celebrity",
      "brand ambassador",
      "internationally diversified instruments",
      "scheme objective",
      "approved by",
      "limited time",
      "lucky draw",
      "best ever",
      "bse",
      "Hindi",
      "issuer",
      "no liability",
      "we undertake",
      "exempt",
      "retain 5 years",
      "renewal 180 days",
      "suspended",
      "vendor",
      "client data third",
      "SEBI logo",
      "beat inflation",
      "disparaging",
      "past performance may or may not be sustained",
      "damn",
      "competitor",
      "100%",
      "invest today" }

WordStats(p) ==
    CASE p = "ARN-12345" -> <<8, 2>>
      [] p = "mutual funds are subject to market risk" -> <<33, 7>>
      [] p = "investments are subject to market risk" -> <<33, 6>>
      [] p = "SEBI Reg No: INZ000123" -> <<18, 4>>
      [] p = "guaranteed 12% returns" -> <<19, 3>>
      [] p = "assured returns" -> <<14, 2>>
      [] p = "fixed returns" -> <<12, 2>>
      [] p = "source: XYZ survey" -> <<15, 3>>
      [] p = "visit www.example.com" -> <<18, 4>>
      [] p = "celebrity" -> <<9, 1>>
      [] p = "brand ambassador" -> <<15, 2>>
      [] p = "internationally diversified instruments" -> <<37, 3>>
      [] p = "scheme objective" -> <<15, 2>>
      [] p = "approved by" -> <<10, 2>>
      [] p = "limited time" -> <<11, 2>>
      [] p = "lucky draw" -> <<9, 2>>
      [] p = "best ever" -> <<8, 2>>
      [] p = "bse" -> <<3, 1>>
      [] p = "Hindi" -> <<5, 1>>
      [] p = "issuer" -> <<6, 1>>
      [] p = "no liability" -> <<11, 2>>
      [] p = "we undertake" -> <<11, 2>>
      [] p = "exempt" -> <<6, 1>>
      [] p = "retain 5 years" -> <<12, 3>>
      [] p = "renewal 180 days" -> <<14, 3>>
      [] p = "suspended" -> <<9, 1>>
      [] p = "vendor" -> <<6, 1>>
      [] p = "client data third" -> <<15, 3>>
      [] p = "SEBI logo" -> <<8, 2>>
      [] p = "beat inflation" -> <<13, 2>>
      [] p = "disparaging" -> <<11, 1>>
      [] p = "past performance may or may not be sustained" -> <<37, 8>>
      [] p = "damn" -> <<4, 1>>
      [] p = "competitor" -> <<10, 1>>
      [] p = "100%" -> <<3, 1>>
      [] p = "invest today" -> <<11, 2>>
      [] OTHER -> <<0, 0>>

\* src/app.py:34
SEBI_REG_REGEX == { <<"SEBI Reg No: INZ000123", "SEBI Reg No: INZ000123">> }

\* src/app.py:35
WARNING_PATTERNS ==
    << { <<"mutual funds are subject to market risk", "mutual funds are subject to market risk">> },
       { <<"investments are subject to market risk", "investments are subject to market risk">> },
       {},
       {},
       {} >>

\* src/app.py:42
FIXED_RETURN_PATTERNS ==
    << { <<"guaranteed 12% returns", "guaranteed 12%">> },
       { <<"assured returns", "assured returns">> },
       { <<"fixed returns", "fixed returns">> } >>

\* src/app.py:43
EXCHANGE_LOGO_PAT == { <<"bse", "bse">> }

\* src/app.py:44
PRODUCT_FIELDS_PAT == { <<"issuer", "issuer">> }

\* src/app.py:45
HYPERLINK_PAT == { <<"visit www.example.com", "www.">> }

\* src/app.py:46
SMS_HYPERLINK_PAT == {}

\* src/app.py:47
REGIONAL_LANG_PAT == { <<"Hindi", "Hindi">> }

\* src/app.py:48
CELEBRITY_PATTERNS ==
    << { <<"brand ambassador", "brand ambassador">> },
       { <<"celebrity", "celebrity">> },
       {},
       {},
       {},
       {} >>

\* src/app.py:49
SUPERLATIVE_PAT == { <<"best ever", "best">> }

\* src/app.py:50
INFLATION_BEAT_PAT == { <<"beat inflation", "beat inflation">> }

\* src/app.py:51
DISCOUNT_PROMISE_PAT == { <<"guaranteed 12% returns", "guarantee">>, <<"assured returns", "assured">> }

\* src/app.py:52
GAMES_PRIZES_PAT == { <<"lucky draw", "lucky draw">> }

\* src/app.py:53
CLIENT_DATA_SHARE_PAT == { <<"client data third", "client data third">> }

\* src/app.py:54
LIABILITIES_PAT == { <<"no liability", "no liability">> }

\* src/app.py:55
APPROVALS_PAT == { <<"approved by", "approved by">> }

\* src/app.py:56
UNDERTAKING_PAT == { <<"we undertake", "we undertake">> }

\* src/app.py:57
EXEMPTION_PAT == { <<"exempt", "exempt">> }

\* src/app.py:58
RETENTION_PAT == { <<"retain 5 years", "retain 5 years">> }

\* src/app.py:59
REAPPROVAL_PAT == { <<"renewal 180 days", "renewal 180">> }

\* src/app.py:60
SUSPENSION_PAT == { <<"suspended", "suspend">> }

\* src/app.py:61
THIRD_PARTY_PAT == { <<"vendor", "vendor">> }

\* src/app.py:62
CLAIMS_SOURCED_PAT == { <<"source: XYZ survey", "source:">> }

\* src/app.py:105
EXAGGERATED_PATTERNS ==
    << { <<"best ever", "best ever">> },
       {},
       {} >>

\* src/app.py:111
DISCREDIT_PAT == { <<"disparaging", "disparag">> }

\* src/app.py:117
SEBI_LOGO_PAT == { <<"SEBI logo", "SEBI logo">> }

\* src/app.py:329
ASCI_MISLEADING_PAT == { <<"assured returns", "assured">> }

\* src/app.py:331
ASCI_INDECENT_PAT == { <<"damn", "damn">> }

\* src/app.py:332
ASCI_EXPLOIT_PAT == { <<"limited time", "limited time">> }

\* src/app.py:334
ASCI_DISPARAGE_PAT == { <<"competitor", "competitor">> }

\* src/app.py:366
AMFI_ARN_PAT == { <<"ARN-12345", "ARN-12345">> }

\* src/app.py:367
AMFI_RISK_PAT == { <<"mutual funds are subject to market risk", "mutual funds are subject to market risk">> }

\* src/app.py:368
AMFI_SCHEME_PAT == { <<"scheme objective", "scheme">> }

\* src/app.py:369
AMFI_PAST_PERF_PAT == { <<"past performance may or may not be sustained", "past performance may or may not be sustained">> }

\* src/app.py:370
AMFI_ASSURED_PAT == { <<"assured returns", "assured returns">> }

\* src/app.py:372
AMFI_CELEBRITY_PAT == { <<"celebrity", "celebrity">>, <<"brand ambassador", "ambassador">> }

\* src/app.py:374
AMFI_APPROVED_PAT == { <<"approved by", "approved">> }


(***************************************************************************)
(* Regular-expression search over a chunk                                  *)
(***************************************************************************)
NoMatch == [found |-> FALSE, text |-> ""]

\* pattern.search(chunk): the leftmost match
Search(pat, chunk) ==
    LET hits == {i \in DOMAIN chunk : \E m \in pat : m[1] = chunk[i]}
    IN  IF hits = {} THEN NoMatch
        ELSE [found |-> TRUE,
              text  |-> (CHOOSE m \in pat : m[1] = chunk[Min(hits)])[2]]

\* the first pattern of a list that matches anywhere in the chunk
SearchFirst(pats, chunk) ==
    LET js == {j \in DOMAIN pats : Search(pats[j], chunk).found}
    IN  IF js = {} THEN NoMatch ELSE Search(pats[Min(js)], chunk)

\* SIMPLE_LANGUAGE_HEURISTIC: average \w+ word length <= 6.5
SIMPLE_LANGUAGE_HEURISTIC(chunk) ==
    LET letters == SumSeq([i \in DOMAIN chunk |-> WordStats(chunk[i])[1]])
        words   == SumSeq([i \in DOMAIN chunk |-> WordStats(chunk[i])[2]])
    IN  10 * letters <= 65 * (IF words >= 1 THEN words ELSE 1)

PyBoolStr(b) == IF b THEN "True" ELSE "False"

\* f"avg_word_len_ok={simple}"
AvgWordLenEvidence(simple) ==
    IF simple THEN "avg_word_len_ok=True" ELSE "avg_word_len_ok=False"

(***************************************************************************)
(* Deterministic field evaluators                                          *)
(***************************************************************************)
Verdict(v, c, e, s) == [value |-> v, confidence |-> c, evidence |-> e, source |-> s]

NoSignalHeuristic == Verdict(FALSE, 0, "", "heuristic")

\* a field that is present when the pattern matches
Present(m, c) == Verdict(m.found, IF m.found THEN c ELSE 0, m.text, "regex")

\* a prohibition that is violated when the pattern matches
Prohibited(m, cHit, cMiss) ==
    Verdict(~m.found, IF m.found THEN cHit ELSE cMiss, m.text, "regex")

\* the keys of the dict deterministic_checks returns
DeterministicCheckKeys ==
    { "name_address_reg", "standard_warning_present", "warning_font_size_ok",
      "av_duration_ok", "regional_languages_used", "hyperlink_for_sms_ok",
      "product_details_disclosed", "exchange_logo_absent", "claims_sourced",
      "simple_language_used", "fixed_returns_warning_present",
      "no_other_logos_without_approval", "no_illegal_or_false",
      "no_exaggerated_slogans", "no_superlatives_unsubstantiated",
      "no_inflation_beating_claims", "no_discrediting_competitors",
      "no_celebrities", "no_assured_returns", "no_sebi_logo",
      "approvals_required_or_template", "undertakings_provided",
      "exemptions_applied_correctly", "quarterly_upload_done",
      "no_games_or_prizes", "retention_5y", "reapprovals_after_180d",
      "medium_changes_ok", "suspension_rules_followed",
      "third_party_action_compliant", "no_client_data_sharing",
      "liabilities_disclaimed", "penalty_awareness", "accurate_info",
      "is_advertisement" }

deterministic_checks(chunk) ==
    LET link   == Search(HYPERLINK_PAT, chunk)
        sms    == Search(SMS_HYPERLINK_PAT, chunk)
        simple == SIMPLE_LANGUAGE_HEURISTIC(chunk)
    IN
    [f \in DeterministicCheckKeys |->
      CASE f = "name_address_reg" -> Present(Search(SEBI_REG_REGEX, chunk), 99)
        [] f = "standard_warning_present" -> Present(SearchFirst(WARNING_PATTERNS, chunk), 90)
        [] f = "warning_font_size_ok" -> Verdict(FALSE, 0, "", "heuristic")
        [] f = "av_duration_ok" -> Verdict(FALSE, 0, "", "heuristic")
        [] f = "regional_languages_used" -> Present(Search(REGIONAL_LANG_PAT, chunk), 80)
        [] f = "hyperlink_for_sms_ok" ->
              Verdict(link.found \/ sms.found,
                      IF link.found \/ sms.found THEN 85 ELSE 0,
                      IF link.found THEN link.text ELSE IF sms.found THEN sms.text ELSE "",
                      "regex")
        [] f = "product_details_disclosed" -> Present(Search(PRODUCT_FIELDS_PAT, chunk), 85)
        [] f = "exchange_logo_absent" -> Prohibited(Search(EXCHANGE_LOGO_PAT, chunk), 80, 20)
        [] f = "claims_sourced" -> Present(Search(CLAIMS_SOURCED_PAT, chunk), 80)
        [] f = "simple_language_used" ->
              Verdict(simple, IF simple THEN 60 ELSE 50,
                      AvgWordLenEvidence(simple), "heuristic")
        [] f = "fixed_returns_warning_present" ->
              Present(SearchFirst(FIXED_RETURN_PATTERNS, chunk), 95)
        [] f = "no_other_logos_without_approval" -> Verdict(TRUE, 40, "", "heuristic")
        [] f = "no_illegal_or_false" -> Verdict(TRUE, 50, "", "heuristic")
        [] f = "no_exaggerated_slogans" ->
              Prohibited(SearchFirst(EXAGGERATED_PATTERNS, chunk), 90, 70)
        [] f = "no_superlatives_unsubstantiated" ->
              Prohibited(Search(SUPERLATIVE_PAT, chunk), 90, 70)
        [] f = "no_inflation_beating_claims" ->
              Prohibited(Search(INFLATION_BEAT_PAT, chunk), 90, 70)
        [] f = "no_discrediting_competitors" ->
              Prohibited(Search(DISCREDIT_PAT, chunk), 85, 70)
        [] f = "no_celebrities" -> Prohibited(SearchFirst(CELEBRITY_PATTERNS, chunk), 90, 70)
        [] f = "no_assured_returns" -> Prohibited(Search(DISCOUNT_PROMISE_PAT, chunk), 90, 70)
        [] f = "no_sebi_logo" -> Prohibited(Search(SEBI_LOGO_PAT, chunk), 90, 70)
        [] f = "approvals_required_or_template" -> Present(Search(APPROVALS_PAT, chunk), 80)
        [] f = "undertakings_provided" -> Present(Search(UNDERTAKING_PAT, chunk), 80)
        [] f = "exemptions_applied_correctly" -> Present(Search(EXEMPTION_PAT, chunk), 60)
        [] f = "quarterly_upload_done" -> Verdict(FALSE, 0, "", "heuristic")
        [] f = "no_games_or_prizes" -> Prohibited(Search(GAMES_PRIZES_PAT, chunk), 90, 70)
        [] f = "retention_5y" -> Present(Search(RETENTION_PAT, chunk), 80)
        [] f = "reapprovals_after_180d" -> Present(Search(REAPPROVAL_PAT, chunk), 70)
        [] f = "medium_changes_ok" -> Verdict(TRUE, 50, "", "heuristic")
        [] f = "suspension_rules_followed" -> Present(Search(SUSPENSION_PAT, chunk), 60)
        [] f = "third_party_action_compliant" ->
              Prohibited(Search(THIRD_PARTY_PAT, chunk), 70, 40)
        [] f = "no_client_data_sharing" ->
              Prohibited(Search(CLIENT_DATA_SHARE_PAT, chunk), 85, 40)
        [] f = "liabilities_disclaimed" -> Present(Search(LIABILITIES_PAT, chunk), 80)
        [] f = "penalty_awareness" -> Verdict(TRUE, 30, "", "heuristic")
        [] f = "accurate_info" -> Verdict(TRUE, 50, "", "heuristic")
        [] f = "is_advertisement" -> Verdict(TRUE, 50, "", "heuristic") ]

\* the lambdas of ASCI_REGEX_FUNCS; Unset stands for a name the table lacks
Unset == [unset |-> TRUE]

ASCI_REGEX_FUNCS(f, c) ==
    LET mis == Search(ASCI_MISLEADING_PAT, c)
        src == Search(CLAIMS_SOURCED_PAT, c)
    IN
    CASE f = "is_truthful" -> Verdict(TRUE, 50, "", "heuristic")
      [] f = "not_misleading" -> Verdict(~mis.found, 80, mis.text, "regex")
      [] f = "claims_substantiated" -> Verdict(src.found, 80, src.text, "regex")
      [] f = "decent_language" ->
            Verdict(~Search(ASCI_INDECENT_PAT, c).found, 70, "", "regex")
      [] f = "not_exploiting_vulnerability" ->
            Verdict(~Search(ASCI_EXPLOIT_PAT, c).found, 60, "", "regex")
      [] f = "fair_competition" -> Verdict(TRUE, 50, "", "heuristic")
      [] f = "no_disparagement" ->
            Verdict(~Search(ASCI_DISPARAGE_PAT, c).found, 70, "", "regex")
      [] OTHER -> Unset

AMFI_REGEX_FUNCS(f, c) ==
    CASE f = "arn_present" -> Verdict(Search(AMFI_ARN_PAT, c).found, 90, "", "regex")
      [] f = "risk_disclaimer_present" ->
            Verdict(Search(AMFI_RISK_PAT, c).found, 95, "", "regex")
      [] f = "scheme_details_disclosed" ->
            Verdict(Search(AMFI_SCHEME_PAT, c).found, 80, "", "regex")
      [] f = "past_performance_caveat" ->
            Verdict(Search(AMFI_PAST_PERF_PAT, c).found, 90, "", "regex")
      [] f = "no_assured_returns" ->
            Verdict(~Search(AMFI_ASSURED_PAT, c).found, 90, "", "regex")
      [] f = "no_misleading_performance" -> Verdict(TRUE, 50, "", "heuristic")
      [] f = "no_celebrity_endorsement" ->
            Verdict(~Search(AMFI_CELEBRITY_PAT, c).found, 80, "", "regex")
      [] f = "simple_language" -> Verdict(SIMPLE_LANGUAGE_HEURISTIC(c), 60, "", "heuristic")
      [] f = "approval_obtained" ->
            Verdict(Search(AMFI_APPROVED_PAT, c).found, 70, "", "regex")
      [] OTHER -> Unset

(***************************************************************************)
(* Category maps                                                           *)
(***************************************************************************)
ASCI_CATEGORIES ==
    << [category |-> "Truthfulness and Honesty",
        fields |-> << "is_truthful", "not_misleading", "claims_substantiated" >>],
       [category |-> "Decency and Non-Offensiveness",
        fields |-> << "decent_language", "not_exploiting_vulnerability" >>],
       [category |-> "Fairness",
        fields |-> << "fair_competition", "no_disparagement" >>] >>

AMFI_CATEGORIES ==
    << [category |-> "Disclosures",
        fields |-> << "arn_present", "risk_disclaimer_present", "scheme_details_disclosed", "past_performance_caveat" >>],
       [category |-> "Prohibitions",
        fields |-> << "no_assured_returns", "no_misleading_performance", "no_celebrity_endorsement" >>],
       [category |-> "Other Compliances",
        fields |-> << "simple_language", "approval_obtained" >>] >>

OBPP_CATEGORIES ==
    << [category |-> "Forms of Communication",
        fields |-> << "is_advertisement" >>],
       [category |-> "Disclosures",
        fields |-> << "name_address_reg", "accurate_info", "standard_warning_present", "warning_font_size_ok", "av_duration_ok", "regional_languages_used", "hyperlink_for_sms_ok", "product_details_disclosed", "exchange_logo_absent", "claims_sourced", "simple_language_used", "fixed_returns_warning_present", "no_other_logos_without_approval" >>],
       [category |-> "Prohibitions",
        fields |-> << "no_illegal_or_false", "no_exaggerated_slogans", "no_superlatives_unsubstantiated", "no_inflation_beating_claims", "no_discrediting_competitors", "no_celebrities", "no_assured_returns", "no_sebi_logo" >>],
       [category |-> "Other Compliances",
        fields |-> << "approvals_required_or_template", "undertakings_provided", "exemptions_applied_correctly", "quarterly_upload_done", "no_games_or_prizes", "retention_5y", "reapprovals_after_180d", "medium_changes_ok", "suspension_rules_followed", "third_party_action_compliant", "no_client_data_sharing", "liabilities_disclaimed" >>],
       [category |-> "Penalties",
        fields |-> << "penalty_awareness" >>] >>

(***************************************************************************)
(* Guideline configurations                                                *)
(***************************************************************************)
STOCK_CATEGORIES == OBPP_CATEGORIES

\* STOCK_REGEX_FUNCS: deterministic_checks(c).get(f, no-signal default),
\* defined for the fields of OBPP_CATEGORIES
StockRegexKeys == UNION {Range(OBPP_CATEGORIES[i].fields) : i \in DOMAIN OBPP_CATEGORIES}

STOCK_REGEX_FUNCS(f, c) ==
    IF f \in StockRegexKeys
    THEN IF f \in DeterministicCheckKeys
         THEN deterministic_checks(c)[f]
         ELSE NoSignalHeuristic
    ELSE Unset

GUIDELINE_CODES == {ASCI_CODE, AMFI_CODE, STOCK_CODE}

Categories(g) ==
    CASE g = ASCI_CODE -> ASCI_CATEGORIES
      [] g = AMFI_CODE -> AMFI_CATEGORIES
      [] g = STOCK_CODE -> STOCK_CATEGORIES

GuidelineName(g) ==
    CASE g = ASCI_CODE -> "ASCI (Advertising Standards Council of India)"
      [] g = AMFI_CODE -> "AMFI (Mutual Funds)"
      [] g = STOCK_CODE -> "NSE/BSE/MCA (Stock Market)"

\* config['regex_funcs'].get(f, <no-signal lambda>)(chunk)
RegexFunc(g, f, chunk) ==
    LET r == CASE g = ASCI_CODE -> ASCI_REGEX_FUNCS(f, chunk)
               [] g = AMFI_CODE -> AMFI_REGEX_FUNCS(f, chunk)
               [] g = STOCK_CODE -> STOCK_REGEX_FUNCS(f, chunk)
    IN  IF r = Unset THEN NoSignalHeuristic ELSE r

\* sum(config['categories'].values(), []), for every guideline
GuidelineFieldsTable ==
    Table([g \in GUIDELINE_CODES |->
              Flatten([i \in DOMAIN Categories(g) |-> Categories(g)[i].fields])])

GuidelineFields(g) == GuidelineFieldsTable[g]

\* the names config['guidance'] has an entry for: every field of the catalog
GuidanceNames == Table([g \in GUIDELINE_CODES |-> Range(GuidelineFields(g))])

\* f"{g}_{f}", for every guideline and every field of its catalog
PrefixedTable ==
    Table([g \in GUIDELINE_CODES |->
              Table([f \in Range(GuidelineFields(g)) |-> g \o "_" \o f])])

Prefixed(g, f) == PrefixedTable[g][f]

\* The guidance texts of the three catalogs are pairwise distinct, for "pass"
\* and "fail" alike; the model names each text by its kind and field.
GuidanceTable ==
    Table([g \in GUIDELINE_CODES |->
              Table([f \in GuidanceNames[g] |->
                        [pass |-> "pass:" \o Prefixed(g, f),
                         fail |-> "fail:" \o Prefixed(g, f)]])])

\* config['guidance'].get(f, {kind: ''})[kind]
Guidance(g, f, kind) ==
    IF f \in GuidanceNames[g]
    THEN IF kind = "pass" THEN GuidanceTable[g][f].pass ELSE GuidanceTable[g][f].fail
    ELSE ""

\* the (guideline, field) pairs in the order the loops of the source visit them
FieldPairs(sel) ==
    Flatten([i \in DOMAIN sel |->
                [j \in DOMAIN GuidelineFields(sel[i]) |->
                    <<sel[i], GuidelineFields(sel[i])[j]>>]])

\* the (guideline, field) pair that writes each key f"{g}_{f}": the codes differ
\* in their first letter, so a key has one writer however often it is written
KeyOwner ==
    Table([k \in UNION {{Prefixed(g, f) : f \in Range(GuidelineFields(g))} :
                            g \in GUIDELINE_CODES} |->
              CHOOSE p \in UNION {{<<g, f>> : f \in Range(GuidelineFields(g))} :
                                     g \in GUIDELINE_CODES} :
                  Prefixed(p[1], p[2]) = k])

\* the keys written for one guideline
GuidelineKeys ==
    Table([g \in GUIDELINE_CODES |-> {Prefixed(g, f) : f \in Range(GuidelineFields(g))}])

get_deterministic(selected_guidelines, chunk) ==
    [k \in UNION {GuidelineKeys[g] : g \in Range(selected_guidelines)} |->
        RegexFunc(KeyOwner[k][1], KeyOwner[k][2], chunk)]

(***************************************************************************)
(* JSON values as the judge returns them, and Python's conversions         *)
(***************************************************************************)
JNull == [t |-> "null"]
JBool(b) == [t |-> "bool", b |-> b]
JNum(n) == [t |-> "num", n |-> n]          \* n counted in hundredths
JStr(s) == [t |-> "str", s |-> s]
JList(l) == [t |-> "list", l |-> l]
JObj(o) == [t |-> "obj", o |-> o]          \* o: a function from keys to JSON values

EmptyDict == [k \in {} |-> JNull]

\* bool(x)
PyTruthy(j) ==
    CASE j.t = "null" -> FALSE
      [] j.t = "bool" -> j.b
      [] j.t = "num" -> j.n # 0
      [] j.t = "str" -> j.s # ""
      [] j.t = "list" -> j.l # <<>>
      [] j.t = "obj" -> DOMAIN j.o # {}

\* the decimal strings the bounded judge writes, with their values
NumericStrings == {<<"0.95", 95>>, <<"0.5", 50>>}

\* float(x): ok with the number, or an exception
PyFloat(j) ==
    CASE j.t = "num" -> [ok |-> TRUE, n |-> j.n]
      [] j.t = "bool" -> [ok |-> TRUE, n |-> IF j.b THEN 100 ELSE 0]
      [] j.t = "str" ->
            IF \E p \in NumericStrings : p[1] = j.s
            THEN [ok |-> TRUE, n |-> (CHOOSE p \in NumericStrings : p[1] = j.s)[2]]
            ELSE [ok |-> FALSE, n |-> 0]
      [] OTHER -> [ok |-> FALSE, n |-> 0]

\* str(x), for the evidence values the bounded judge writes
PyStr(j) ==
    CASE j.t = "str" -> j.s
      [] j.t = "null" -> "None"
      [] j.t = "bool" -> PyBoolStr(j.b)

\* d.get(k, default) on a Python dict
DictGet(o, k, default) == IF k \in DOMAIN o THEN o[k] ELSE default

(***************************************************************************)
(* merge_perceptions                                                       *)
(***************************************************************************)
Raised == [raised |-> TRUE]

\* lines 582-586 for one key: the LLM verdict l, None, or an exception
LlmVerdict(llm_items, k) ==
    IF llm_items.t # "obj" THEN [kind |-> "raise"]       \* no .get on a non-dict
    ELSE
    LET llm == DictGet(llm_items.o, k, JNull)
    IN  IF ~PyTruthy(llm) THEN [kind |-> "none"]
        ELSE CASE llm.t = "obj" ->
                    IF "value" \notin DOMAIN llm.o THEN [kind |-> "none"]
                    ELSE IF "confidence" \notin DOMAIN llm.o
                            \/ "evidence" \notin DOMAIN llm.o
                            \/ ~PyFloat(llm.o["confidence"]).ok
                         THEN [kind |-> "raise"]
                         ELSE [kind |-> "verdict",
                               v |-> Verdict(PyTruthy(llm.o["value"]),
                                             PyFloat(llm.o["confidence"]).n,
                                             PyStr(llm.o["evidence"]), "llm")]
               [] llm.t = "str" ->
                    IF Contains(llm.s, "value") THEN [kind |-> "raise"]
                    ELSE [kind |-> "none"]
               [] llm.t = "list" ->
                    IF JStr("value") \in Range(llm.l) THEN [kind |-> "raise"]
                    ELSE [kind |-> "none"]
               [] OTHER -> [kind |-> "raise"]           \* 'value' in <number>

\* MergeField without the trust rule: the judge is compared first
MergeFieldJudgeFirst(d, l) ==
    IF l.kind = "verdict" /\ l.v.confidence > d.confidence THEN l.v ELSE d

\* MergeField with a judge that also wins at equal confidence
MergeFieldTieToJudge(d, l) ==
    IF d.confidence >= 90 THEN d
    ELSE IF l.kind = "verdict" /\ l.v.confidence >= d.confidence THEN l.v
    ELSE d

\* lines 587-592 for one key
MergeField(d, l) ==
    IF d.confidence >= 90 THEN d
    ELSE IF l.kind = "verdict" /\ l.v.confidence > d.confidence THEN l.v
    ELSE d

\* merge_perceptions that also takes over the judge's verdicts on keys the
\* deterministic map lacks
MergePerceptionsJudgeKeys(deterministic, perc) ==
    LET llm_items == DictGet(perc.o, "detected_items", JObj(EmptyDict))
        extra == IF llm_items.t = "obj"
                 THEN {k \in DOMAIN llm_items.o \ DOMAIN deterministic :
                          LlmVerdict(llm_items, k).kind = "verdict"}
                 ELSE {}
    IN  IF \E k \in DOMAIN deterministic : LlmVerdict(llm_items, k).kind = "raise"
        THEN Raised
        ELSE [k \in DOMAIN deterministic \cup extra |->
                 IF k \in DOMAIN deterministic
                 THEN MergeField(deterministic[k], LlmVerdict(llm_items, k))
                 ELSE LlmVerdict(llm_items, k).v]

merge_perceptions(deterministic, perc) ==
    LET llm_items == DictGet(perc.o, "detected_items", JObj(EmptyDict))
    IN  IF \E k \in DOMAIN deterministic : LlmVerdict(llm_items, k).kind = "raise"
        THEN Raised
        ELSE [k \in DOMAIN deterministic |->
                 MergeField(deterministic[k], LlmVerdict(llm_items, k))]

(***************************************************************************)
(* Chunk aggregation (check_compliance, "Aggregate max confidence")        *)
(***************************************************************************)
\* one pass of the inner loop: fold chunk_map into final
\* AggregateInto with  >=  for  > : at equal confidence the later chunk wins
AggregateIntoLaterWins(fin, chunk_map) ==
    [k \in DOMAIN fin \cup DOMAIN chunk_map |->
        IF k \notin DOMAIN chunk_map THEN fin[k]
        ELSE IF k \notin DOMAIN fin \/ chunk_map[k].confidence >= fin[k].confidence
             THEN chunk_map[k]
             ELSE fin[k]]

\* AggregateInto without the comparison: every chunk overwrites the field
AggregateIntoOverwrite(fin, chunk_map) ==
    [k \in DOMAIN fin \cup DOMAIN chunk_map |->
        IF k \in DOMAIN chunk_map THEN chunk_map[k] ELSE fin[k]]

\* lines 677-682, the body of the loop for one chunk_map
AggregateInto(fin, chunk_map) ==
    [k \in DOMAIN fin \cup DOMAIN chunk_map |->
        IF k \notin DOMAIN chunk_map THEN fin[k]
        ELSE IF k \notin DOMAIN fin \/ chunk_map[k].confidence > fin[k].confidence
             THEN chunk_map[k]
             ELSE fin[k]]

RECURSIVE AggregateFrom(_, _)
AggregateFrom(fin, maps) ==
    IF maps = <<>> THEN fin
    ELSE AggregateFrom(AggregateInto(fin, Head(maps)), Tail(maps))

EmptyMap == [k \in {} |-> NoSignalHeuristic]

AggregateChunks(maps) == AggregateFrom(EmptyMap, maps)

(***************************************************************************)
(* build_guideline_eval and aggregate_results                              *)
(***************************************************************************)
\* the integer nearest to num/den (ties to the even neighbour)
Round(num, den) ==
    LET q == num \div den
        r == num % den
    IN  IF 2 * r > den \/ (2 * r = den /\ q % 2 = 1) THEN q + 1 ELSE q

\* round(x, 2) of a float x that stands for num/den hundredths: at an exact
\* tie the binary representation of x decides, so both neighbours can result
RoundFloat(num, den) ==
    IF 2 * (num % den) = den THEN {num \div den, (num \div den) + 1}
    ELSE {Round(num, den)}

\* the status of a category (build_guideline_eval, in the loop)
CategoryStatus(pct) ==
    IF pct >= PASS_THRESHOLD THEN "Pass"
    ELSE IF pct >= WARN_THRESHOLD THEN "Warning"
    ELSE "Fail"

\* GuidelineStatus with  >  for  >= : a percentage on a threshold falls below it
GuidelineStatusStrict(guideline_pct) ==
    IF guideline_pct > PASS_THRESHOLD THEN "Pass"
    ELSE IF guideline_pct > WARN_THRESHOLD THEN "Warning"
    ELSE "Fail"

\* the status of a guideline (build_guideline_eval, in the returned dict)
GuidelineStatus(guideline_pct) ==
    IF guideline_pct >= PASS_THRESHOLD THEN "Pass"
    ELSE IF guideline_pct >= WARN_THRESHOLD THEN "Warning"
    ELSE "Fail"

\* overall_status of aggregate_results
OverallStatus(overall_pct) ==
    IF overall_pct >= PASS_THRESHOLD THEN "Pass"
    ELSE IF overall_pct >= WARN_THRESHOLD THEN "Warning"
    ELSE "Fail"

NoneVerdict == Verdict(FALSE, 0, "", "none")

\* FieldObj with a default that passes: a missing field counts as true
FieldObjMissingTrue(g_code, fin, f) ==
    DictGet(fin, Prefixed(g_code, f), Verdict(TRUE, 0, "", "none"))

\* final.get(prefixed, <source none default>)
FieldObj(g_code, fin, f) == DictGet(fin, Prefixed(g_code, f), NoneVerdict)

\* 'no_' in f or 'not_' in f, for every field name of the catalogs
NegationNamed ==
    Table([f \in UNION {Range(GuidelineFields(g)) : g \in GUIDELINE_CODES} |->
              Contains(f, "no_") \/ Contains(f, "not_")])

\* AnomalyHeuristic without the test of the name: every failing field is noted
AnomalyHeuristicAlways(f) == TRUE

AnomalyHeuristic(f) == NegationNamed[f]

\* Narrative entries are formatted strings in the source; the model keeps the
\* parts a string is formatted from, which determine it and which it determines.
\* f"{pos} (evidence: {evidence})" if evidence else pos
RightEntry(g_code, f, evidence) == <<Guidance(g_code, f, "pass"), evidence>>

\* the improvement text itself
ImprovementEntry(g_code, f) == <<Guidance(g_code, f, "fail")>>

\* f"Potential violation in {cat}: {f} (evidence: {evidence})."
AnomalyEntry(cat, f, evidence) == <<"Potential violation in", cat, f, evidence>>

\* the body of the loop over one category's fields
CategoryEval(g_code, fin, cat) ==
    LET fields == cat.fields
        obj    == [i \in DOMAIN fields |-> FieldObj(g_code, fin, fields[i])]
        total  == Len(fields)
        passed == Cardinality({i \in DOMAIN fields : obj[i].value})
        pct    == Round(10000 * passed, IF total >= 1 THEN total ELSE 1)
    IN  [category |-> cat.category,
         category_percentage |-> pct,
         status |-> CategoryStatus(pct),
         sub_criteria |->
            [i \in DOMAIN fields |->
                [name |-> fields[i],
                 pass_fail |-> IF obj[i].value THEN "Pass" ELSE "Fail",
                 confidence |-> obj[i].confidence,
                 evidence |-> obj[i].evidence]],
         what_is_right |->
            Flatten([i \in DOMAIN fields |->
                IF obj[i].value
                THEN <<RightEntry(g_code, fields[i], obj[i].evidence)>> ELSE <<>>]),
         improvements |->
            Flatten([i \in DOMAIN fields |->
                IF obj[i].value THEN <<>> ELSE <<ImprovementEntry(g_code, fields[i])>>]),
         anomalies |->
            Flatten([i \in DOMAIN fields |->
                IF ~obj[i].value /\ AnomalyHeuristic(fields[i])
                THEN <<AnomalyEntry(cat.category, fields[i], obj[i].evidence)>>
                ELSE <<>>])]

\* CategoryWeight in proportion to the number of fields of the category
CategoryWeightByFields(cats, i) == Len(cats[i].fields)

\* category_weights: every category weighs 1/len(categories); the model keeps
\* the numerator of the weight over the common denominator len(categories)
CategoryWeight(cats, i) == 1

\* the loop over config['categories'].items()
RECURSIVE CategoryEvals(_, _, _)
CategoryEvals(g_code, fin, cats) ==
    IF cats = <<>> THEN <<>>
    ELSE <<CategoryEval(g_code, fin, Head(cats))>> \o CategoryEvals(g_code, fin, Tail(cats))

build_guideline_eval(g_code, fin) ==
    LET cats   == Categories(g_code)
        n      == Len(cats)
        ce     == CategoryEvals(g_code, fin, cats)
        \* weighted_total and weighted_scored, both times n
        weighted_total  == SumSeq([i \in DOMAIN cats |-> CategoryWeight(cats, i) * 100])
        weighted_scored == SumSeq([i \in DOMAIN cats |->
                                      CategoryWeight(cats, i) * ce[i].category_percentage])
        \* round(weighted_scored / max(1, weighted_total) * 100, 2)
        guideline_pct ==
            IF weighted_total >= n THEN Round(100 * weighted_scored, weighted_total)
            ELSE Round(100 * weighted_scored, n)
    IN  [guideline |-> GuidelineName(g_code),
         guideline_percentage |-> guideline_pct,
         status |-> GuidelineStatus(guideline_pct),
         categories |->
            [i \in DOMAIN cats |->
                [category |-> ce[i].category,
                 category_percentage |-> ce[i].category_percentage,
                 status |-> ce[i].status,
                 sub_criteria |-> ce[i].sub_criteria]],
         what_is_right |-> Flatten([i \in DOMAIN cats |-> ce[i].what_is_right]),
         improvements |-> Flatten([i \in DOMAIN cats |-> ce[i].improvements]),
         anomalies |-> Flatten([i \in DOMAIN cats |-> ce[i].anomalies])]

\* [build_guideline_eval(g, final) for g in selected_guidelines]
RECURSIVE GuidelineEvals(_, _)
GuidelineEvals(selected_guidelines, fin) ==
    IF selected_guidelines = <<>> THEN <<>>
    ELSE <<build_guideline_eval(Head(selected_guidelines), fin)>>
         \o GuidelineEvals(Tail(selected_guidelines), fin)

\* Dedup keeping the last occurrence of every entry instead of the first
RECURSIVE DedupKeepLast(_)
DedupKeepLast(l) ==
    IF l = <<>> THEN <<>>
    ELSE IF \E i \in 2..Len(l) : l[i] = Head(l) THEN DedupKeepLast(Tail(l))
    ELSE <<Head(l)>> \o DedupKeepLast(Tail(l))

\* list(dict.fromkeys(l)): the first occurrence of every entry, in order
RECURSIVE DedupFrom(_, _)
DedupFrom(seen, l) ==
    IF l = <<>> THEN <<>>
    ELSE IF Head(l) \in seen THEN DedupFrom(seen, Tail(l))
    ELSE <<Head(l)>> \o DedupFrom(seen \cup {Head(l)}, Tail(l))

Dedup(l) == DedupFrom({}, l)

\* OverallPct dividing by the number of guidelines there are, not of evaluations
OverallPctOfCatalog(evals) ==
    IF evals = <<>> THEN {10000}
    ELSE RoundFloat(SumSeq([i \in DOMAIN evals |-> evals[i].guideline_percentage]),
                    Cardinality(GUIDELINE_CODES))

\* the overall percentages round(sum/len, 2) can yield; 100.0 for no evaluation
OverallPct(evals) ==
    IF evals = <<>> THEN {10000}
    ELSE RoundFloat(SumSeq([i \in DOMAIN evals |-> evals[i].guideline_percentage]),
                    Len(evals))

aggregate_results(evals, overall_pct) ==
    [overall_accuracy_percentage |-> overall_pct,
     overall_status |-> OverallStatus(overall_pct),
     evaluations |-> evals,
     what_is_right |-> Dedup(Flatten([i \in DOMAIN evals |-> evals[i].what_is_right])),
     improvements |-> Dedup(Flatten([i \in DOMAIN evals |-> evals[i].improvements])),
     anomalies_detected |-> Dedup(Flatten([i \in DOMAIN evals |-> evals[i].anomalies]))]

(***************************************************************************)
(* The judge and llm_json_call                                             *)
(***************************************************************************)
\* {"is_advertisement": True, "detected_items": {}}
DefaultPerception ==
    JObj([k \in {"is_advertisement", "detected_items"} |->
            IF k = "is_advertisement" THEN JBool(TRUE) ELSE JObj(EmptyDict)])

\* {"detected_items": {}}: what check_compliance uses without a client
NoClientPerception == JObj([k \in {"detected_items"} |-> JObj(EmptyDict)])

\* build_schema: the prefixed field names under detected_items.properties
SchemaProperties(selected_guidelines) ==
    {Prefixed(p[1], p[2]) : p \in Range(FieldPairs(selected_guidelines))}

\* one detected item against its schema: value boolean, confidence number,
\* evidence string, all required, nothing else
ItemValid(e) ==
    /\ e.t = "obj"
    /\ DOMAIN e.o = {"value", "confidence", "evidence"}
    /\ e.o["value"].t = "bool"
    /\ e.o["confidence"].t = "num"
    /\ e.o["evidence"].t = "str"

StringList(j) == j.t = "list" /\ \A i \in DOMAIN j.l : j.l[i].t = "str"

\* jsonschema_validate(parsed, schema["schema"])
SchemaValid(parsed, selected_guidelines) ==
    /\ parsed.t = "obj"
    /\ DOMAIN parsed.o = {"is_advertisement", "detected_items", "improvements",
                          "anomalies", "what_is_right"}
    /\ parsed.o["is_advertisement"].t = "bool"
    /\ StringList(parsed.o["improvements"])
    /\ StringList(parsed.o["anomalies"])
    /\ StringList(parsed.o["what_is_right"])
    /\ parsed.o["detected_items"].t = "obj"
    /\ DOMAIN parsed.o["detected_items"].o \subseteq SchemaProperties(selected_guidelines)
    /\ \A k \in DOMAIN parsed.o["detected_items"].o :
            ItemValid(parsed.o["detected_items"].o[k])

\* What the judge does with the two requests of one call.  Each answer is
\*   [kind |-> "error"]            the request raises (timeout, API error)
\*   [kind |-> "text"]             text that holds no JSON object
\*   [kind |-> "json", parsed |-> J]  text that parses to the JSON value J
JudgeError == [kind |-> "error"]
JudgeText == [kind |-> "text"]
JudgeJson(j) == [kind |-> "json", parsed |-> j]

\* @retry(stop=stop_after_attempt(3), ...)
STOP_AFTER_ATTEMPT == 3

\* the body of llm_json_call: the perception returned and the requests issued;
\* cl tells whether the client is configured.  build_schema and
\* build_sys_prompt stand outside the try blocks and raise for a code
\* GUIDELINE_CONFIGS does not hold; every failure of the two requests is caught.
llm_json_call_body(cl, behaviour, selected_guidelines) ==
    LET first == behaviour.structured
        second == behaviour.fallback
    IN  IF ~cl
        THEN [raised |-> FALSE, result |-> DefaultPerception, requests |-> <<>>]
        ELSE IF \E i \in DOMAIN selected_guidelines : selected_guidelines[i] \notin GUIDELINE_CODES
        THEN [raised |-> TRUE, result |-> JNull, requests |-> <<>>]
        ELSE IF first.kind = "json" /\ SchemaValid(first.parsed, selected_guidelines)
        THEN [raised |-> FALSE, result |-> first.parsed, requests |-> <<"json_schema">>]
        ELSE IF second.kind = "json" /\ second.parsed.t = "obj"
             THEN [raised |-> FALSE, result |-> second.parsed,
                   requests |-> <<"json_schema", "free">>]
             ELSE [raised |-> FALSE, result |-> DefaultPerception,
                   requests |-> <<"json_schema", "free">>]

\* the retry decorator: the body is called again only when it raised, at most
\* STOP_AFTER_ATTEMPT times in all
RECURSIVE RetryFrom(_, _, _, _)
RetryFrom(attempt, cl, behaviour, selected_guidelines) ==
    LET r == llm_json_call_body(cl, behaviour, selected_guidelines)
    IN  IF ~r.raised \/ attempt >= STOP_AFTER_ATTEMPT THEN r
        ELSE LET again == RetryFrom(attempt + 1, cl, behaviour, selected_guidelines)
             IN  [again EXCEPT !.requests = r.requests \o again.requests]

\* llm_json_call under a decorator that also tries again, STOP_AFTER_ATTEMPT
\* times in all, when both requests failed and the default came back
LlmJsonCallRetrying(cl, behaviour, selected_guidelines) ==
    LET r == RetryFrom(1, cl, behaviour, selected_guidelines)
    IN  IF r.requests = <<"json_schema", "free">> /\ r.result = DefaultPerception
        THEN [r EXCEPT !.requests = r.requests \o r.requests \o r.requests]
        ELSE r

\* llm_json_call as decorated
llm_json_call(cl, behaviour, selected_guidelines) ==
    RetryFrom(1, cl, behaviour, selected_guidelines)

\* Perceive with the client taken for configured whatever it is
PerceiveAssumingClient(cl, behaviour, selected_guidelines) ==
    llm_json_call(TRUE, behaviour, selected_guidelines)

\* llm_json_call(ch, selected_guidelines) if client else {"detected_items": {}}
Perceive(cl, behaviour, selected_guidelines) ==
    IF cl THEN llm_json_call(cl, behaviour, selected_guidelines)
    ELSE [raised |-> FALSE, result |-> NoClientPerception, requests |-> <<>>]

(***************************************************************************)
(* Bounded inputs                                                          *)
(***************************************************************************)
MaxChunks == 2

\* the guideline lists check_text can build (list(set(...)) fixes no order)
Selections ==
    { <<ASCI_CODE>>, <<AMFI_CODE, ASCI_CODE>>, <<STOCK_CODE, ASCI_CODE>>,
      <<AMFI_CODE, STOCK_CODE, ASCI_CODE>>, <<STOCK_CODE, AMFI_CODE, ASCI_CODE>> }

\* chunks of one phrase at most, over the whole vocabulary
PhraseChunks == {<<>>} \cup {<<p>> : p \in Vocabulary}

\* the chunks the documents of the whole-request specification are made of
DocChunks ==
    { <<>>,
      <<"ARN-12345">>,
      <<"guaranteed 12% returns">>,
      <<"SEBI Reg No: INZ000123", "mutual funds are subject to market risk">> }

SeqsUpTo(S, n) == UNION {[1..m -> S] : m \in 1..n}

\* confidences the judge reports: none, equal to a prohibition's no-match
\* confidence, above every overridable deterministic one, and out of range
JudgeConfidences == {0, 70, 95, 120}

ValidItem(v, c) ==
    JObj([k \in {"value", "confidence", "evidence"} |->
            CASE k = "value" -> JBool(v)
              [] k = "confidence" -> JNum(c)
              [] k = "evidence" -> JStr("judge")])

\* items the schema rejects and the free-form answer may still carry
LooseItems ==
    { JObj([k \in {"value", "confidence", "evidence"} |->
              CASE k = "value" -> JStr("false")
                [] k = "confidence" -> JStr("0.95")
                [] k = "evidence" -> JNull]),
      JObj([k \in {"value"} |-> JBool(TRUE)]),
      JObj([k \in {"confidence"} |-> JNum(95)]),
      JNull,
      JStr("n/a"),
      ValidItem(FALSE, 95) }

OneItem(k, e) == [x \in {k} |-> e]

FullAnswer(items) ==
    JObj([k \in {"is_advertisement", "detected_items", "improvements", "anomalies",
                 "what_is_right"} |->
            CASE k = "is_advertisement" -> JBool(TRUE)
              [] k = "detected_items" -> JObj(items)
              [] OTHER -> JList(<<>>)])

LooseAnswer(items) == JObj([k \in {"detected_items"} |-> items])

ForeignKey == "asci_unknown_field"

Behaviour(s, f) == [structured |-> s, fallback |-> f]

\* every behaviour of the judge on one chunk with at most one detected item
JudgeBehaviours(sel) ==
    LET keys == SchemaProperties(sel)
    IN  {Behaviour(JudgeJson(FullAnswer(EmptyDict)), JudgeError)}
        \cup {Behaviour(JudgeJson(FullAnswer(OneItem(k, ValidItem(v, c)))), JudgeError) :
                 k \in keys, v \in BOOLEAN, c \in JudgeConfidences}
        \cup {Behaviour(JudgeError, f) :
                 f \in {JudgeError, JudgeText, JudgeJson(JObj(EmptyDict)),
                        JudgeJson(LooseAnswer(JNull)),
                        JudgeJson(LooseAnswer(JList(<<>>)))}}
        \cup {Behaviour(JudgeError, JudgeJson(LooseAnswer(JObj(OneItem(k, e))))) :
                 k \in keys \cup {ForeignKey}, e \in LooseItems}
        \cup {Behaviour(JudgeJson(LooseAnswer(JObj(EmptyDict))), f) :
                 f \in {JudgeText, JudgeJson(LooseAnswer(JObj(EmptyDict)))}}

\* one field per guideline for the judge to speak about
ProbeField(g) ==
    CASE g = ASCI_CODE -> "not_misleading"
      [] g = AMFI_CODE -> "scheme_details_disclosed"
      [] g = STOCK_CODE -> "standard_warning_present"

\* the judge of the whole-request specification: it fails, or its
\* unconstrained answer holds a verdict under a key of no catalog, or it reports
\* the probe field of the first selected guideline true or false with
\* confidence 0.95
ProbeBehaviours(sel) ==
    {Behaviour(JudgeError, JudgeError),
     Behaviour(JudgeError,
               JudgeJson(LooseAnswer(JObj(OneItem(ForeignKey, ValidItem(TRUE, 95))))))}
    \cup {Behaviour(JudgeJson(FullAnswer(OneItem(Prefixed(sel[1], ProbeField(sel[1])),
                                                 ValidItem(v, 95)))), JudgeError) :
             v \in BOOLEAN}

(***************************************************************************)
(* State machine                                                           *)
(***************************************************************************)
NoReport == [none |-> TRUE]

\* the form field guideline_types: absent, the empty string, text that is not
\* JSON, or JSON text that parses to the value j
NoHints == [form |-> "absent"]
EmptyHints == [form |-> "empty"]
MalformedHints == [form |-> "malformed"]
JsonHints(j) == [form |-> "json", parsed |-> j]

\* the request is past the staging of check_text: the handler's own steps
\* are not followed
EndpointIdle ==
    /\ endpoint = "check-text"
    /\ guideline_types = NoHints
    /\ upload = (IF has_input THEN "text" ELSE "none")
    /\ temp_path = (IF has_input THEN "tmp" ELSE "None")
    /\ temp_exists = has_input
    /\ types = <<>>
    /\ detected = JNull

\* the legacy check_compliance is not being followed
LegacyIdle ==
    /\ lg_pc = "idle"
    /\ input_text = [kind |-> "text", text |-> <<>>]
    /\ lg_chunk_size = 500
    /\ lg_plan = <<>>
    /\ lg_chunks = <<>>
    /\ chunk_idx = 0
    /\ file_chunks = <<>>
    /\ total_score = 0
    /\ all_what_is_right = <<>>
    /\ all_improvements = {}
    /\ all_anomalies = {}
    /\ overall_results = NoReport

\* no call of chunk_text is being followed
ChunkTextIdle ==
    /\ ct_pc = "idle"
    /\ text = <<>>
    /\ chunk_size = 400
    /\ overlap = 80
    /\ ct_words = <<>>
    /\ start = 0
    /\ ct_chunks = <<>>

TypeInit ==
    /\ ChunkTextIdle
    /\ LegacyIdle
    /\ EndpointIdle
    /\ det = EmptyMap
    /\ llm_perc = NoClientPerception
    /\ requests = <<>>
    /\ merged_per_chunk = <<>>
    /\ final = EmptyMap
    /\ guideline_evals = <<>>
    /\ report = NoReport

\* a request to /check-text: with a document, or with neither file nor text
Init ==
    /\ pc = "check_text"
    /\ client \in BOOLEAN
    /\ selected \in Selections
    /\ has_input \in BOOLEAN
    /\ chunks \in (IF has_input THEN SeqsUpTo(DocChunks, MaxChunks) ELSE {<<>>})
    /\ TypeInit

\* check_text, else branch: return aggregate_results([])
ReturnEmpty ==
    /\ pc = "check_text"
    /\ ~has_input
    /\ \E overall_pct \in OverallPct(<<>>) :
            report' = aggregate_results(<<>>, overall_pct)
    /\ pc' = "done"
    /\ UNCHANGED <<client, selected, has_input, chunks, det, llm_perc, requests,
                   merged_per_chunk, final, guideline_evals>>
    /\ UNCHANGED other_vars

\* check_compliance, one iteration of the loop over chunks: get_deterministic,
\* llm_json_call (when a client is configured) and merge_perceptions
ProcessChunkWith(behaviours) ==
    /\ pc \in {"check_text", "chunks"}
    /\ has_input
    /\ Len(merged_per_chunk) < Len(chunks)
    /\ LET ch == chunks[Len(merged_per_chunk) + 1]
           d  == get_deterministic(selected, ch)
       IN  \E b \in (IF client THEN behaviours ELSE {Behaviour(JudgeError, JudgeError)}) :
             LET call == Perceive(client, b, selected)
                 merged == IF call.raised THEN Raised
                           ELSE merge_perceptions(d, call.result)
             IN  /\ det' = d
                 /\ llm_perc' = call.result
                 /\ requests' = call.requests
                 /\ IF merged = Raised
                    THEN /\ pc' = "raised"
                         /\ UNCHANGED merged_per_chunk
                    ELSE /\ pc' = "chunks"
                         /\ merged_per_chunk' = Append(merged_per_chunk, merged)
    /\ UNCHANGED <<client, selected, has_input, chunks, final, guideline_evals, report>>
    /\ UNCHANGED other_vars

ProcessChunk == ProcessChunkWith(JudgeBehaviours(selected))

ProcessChunkProbe == ProcessChunkWith(ProbeBehaviours(selected))

\* check_compliance, "Aggregate max confidence"
Aggregate ==
    /\ pc = "chunks"
    /\ Len(merged_per_chunk) = Len(chunks)
    /\ final' = AggregateChunks(merged_per_chunk)
    /\ pc' = "score"
    /\ UNCHANGED <<client, selected, has_input, chunks, det, llm_perc, requests,
                   merged_per_chunk, guideline_evals, report>>
    /\ UNCHANGED other_vars

\* check_compliance, "Build per guideline" and aggregate_results
BuildReport ==
    /\ pc = "score"
    /\ LET evals == GuidelineEvals(selected, final)
       IN  /\ guideline_evals' = evals
           /\ \E overall_pct \in OverallPct(evals) :
                 report' = aggregate_results(evals, overall_pct)
    /\ pc' = "done"
    /\ UNCHANGED <<client, selected, has_input, chunks, det, llm_perc, requests,
                   merged_per_chunk, final>>
    /\ UNCHANGED other_vars

Next == ReturnEmpty \/ ProcessChunkProbe \/ Aggregate \/ BuildReport

Spec == Init /\ [][Next]_vars

(***************************************************************************)
(* One chunk merged under every behaviour of the judge                     *)
(***************************************************************************)
InitMerge ==
    /\ pc = "check_text"
    /\ client \in BOOLEAN
    /\ selected \in Selections
    /\ has_input = TRUE
    /\ chunks \in [1..1 -> DocChunks]
    /\ TypeInit

SpecMerge == InitMerge /\ [][ProcessChunk]_vars

\* merge_perceptions has returned a map for the chunk det was computed from
MergeReturned == pc = "chunks" /\ merged_per_chunk # <<>>

LastMerged == merged_per_chunk[Len(merged_per_chunk)]

\* the verdict l that merge_perceptions builds from the judge's answer for key k
JudgeVerdict(k) ==
    LlmVerdict(DictGet(llm_perc.o, "detected_items", JObj(EmptyDict)), k)

\* C1: whenever merge_perceptions returns, every field whose deterministic
\* confidence is at least 0.9 carries exactly the deterministic verdict (value,
\* confidence, evidence and source), whatever the judge said about the field.
C1_DeterministicTrusted ==
    MergeReturned =>
        \A k \in DOMAIN det : det[k].confidence >= 90 => LastMerged[k] = det[k]

\* a trusted deterministic verdict stood against a judge verdict of the opposite
\* value and higher confidence
C1_Witness ==
    /\ MergeReturned
    /\ \E k \in DOMAIN det :
          /\ det[k].confidence >= 90
          /\ JudgeVerdict(k).kind = "verdict"
          /\ JudgeVerdict(k).v.confidence > det[k].confidence
          /\ JudgeVerdict(k).v.value # det[k].value
          /\ LastMerged[k] = det[k]

\* C2: whenever merge_perceptions returns, a field whose deterministic
\* confidence is below 0.9 carries the judge's verdict (source 'llm') if and
\* only if the judge gave a verdict for it with strictly higher confidence;
\* otherwise it carries the deterministic verdict.
C2_JudgeWinsOnlyStrictlyHigher ==
    MergeReturned =>
        \A k \in DOMAIN det :
            det[k].confidence < 90 =>
                LET l    == JudgeVerdict(k)
                    wins == l.kind = "verdict" /\ l.v.confidence > det[k].confidence
                IN  /\ wins => LastMerged[k] = l.v
                    /\ ~wins => LastMerged[k] = det[k]
                    /\ wins <=> LastMerged[k].source = "llm"

\* the merge fallback: a no-signal deterministic verdict (confidence 0.0) gave
\* way to a judge verdict of confidence 0.7
C2_Witness ==
    /\ MergeReturned
    /\ \E k \in DOMAIN det :
          /\ det[k].confidence = 0
          /\ JudgeVerdict(k).kind = "verdict"
          /\ JudgeVerdict(k).v.confidence = 70
          /\ LastMerged[k] = JudgeVerdict(k).v
          /\ LastMerged[k].source = "llm"

(***************************************************************************)
(* Chunk aggregation in the whole request                                  *)
(***************************************************************************)
\* check_compliance has aggregated the merged maps of all chunks into final
Aggregated == has_input /\ pc \in {"score", "done"}

\* the chunks whose merged map holds field k
ChunksWith(k) == {i \in DOMAIN merged_per_chunk : k \in DOMAIN merged_per_chunk[i]}

\* the chunks that attain the highest confidence of field k
HighestChunks(k) ==
    {i \in ChunksWith(k) :
        \A j \in ChunksWith(k) :
            merged_per_chunk[i][k].confidence >= merged_per_chunk[j][k].confidence}

\* C3: the final verdict of every field is the merged verdict of the earliest
\* chunk among those that attain the field's highest confidence, and final holds
\* exactly the fields some chunk holds.
C3_HighestConfidenceEarliestWins ==
    Aggregated =>
        /\ DOMAIN final = UNION {DOMAIN merged_per_chunk[i] : i \in DOMAIN merged_per_chunk}
        /\ \A k \in DOMAIN final :
              final[k] = merged_per_chunk[Min(HighestChunks(k))][k]

\* in one document, a field that is true/0.9 in the second chunk only and
\* false/0.0 in the first ends true/0.9, and a field on which both chunks tie
\* with different verdicts keeps the verdict of the first chunk
C3_Witness ==
    /\ Aggregated
    /\ Len(merged_per_chunk) = 2
    /\ \E k \in DOMAIN final :
          /\ merged_per_chunk[1][k].value = FALSE
          /\ merged_per_chunk[1][k].confidence = 0
          /\ merged_per_chunk[2][k].value = TRUE
          /\ merged_per_chunk[2][k].confidence = 90
          /\ final[k] = merged_per_chunk[2][k]
    /\ \E k \in DOMAIN final :
          /\ merged_per_chunk[1][k].confidence = merged_per_chunk[2][k].confidence
          /\ merged_per_chunk[1][k] # merged_per_chunk[2][k]
          /\ final[k] = merged_per_chunk[1][k]

\* the merged maps taken in the order p
Reordered(p) == [i \in DOMAIN merged_per_chunk |-> merged_per_chunk[p[i]]]

ChunkOrders == Permutations(DOMAIN merged_per_chunk)

\* aggregating a prefix and the rest separately, then the two partial results
Grouped(j) ==
    AggregateInto(AggregateChunks(SubSeq(merged_per_chunk, 1, j)),
                  AggregateChunks(SubSeq(merged_per_chunk, j + 1, Len(merged_per_chunk))))

PresenceKeys ==
    { Prefixed(AMFI_CODE, "arn_present"), Prefixed(AMFI_CODE, "risk_disclaimer_present"),
      Prefixed(STOCK_CODE, "standard_warning_present"),
      Prefixed(STOCK_CODE, "fixed_returns_warning_present") }

\* C5, as stated: a presence-type field that the deterministic evaluator finds
\* true in at least one chunk of the document is true in the final verdict.
C5_PresentAnywhereIsPresent ==
    Aggregated =>
        \A k \in PresenceKeys \cap DOMAIN final :
            (\E i \in DOMAIN chunks : get_deterministic(selected, chunks[i])[k].value)
                => final[k].value

\* the ARN is written in the second chunk only, no judge is configured, and
\* the final verdict of amfi_arn_present is false
C5_Witness ==
    /\ Aggregated
    /\ ~client
    /\ Len(chunks) = 2
    /\ Prefixed(AMFI_CODE, "arn_present") \in DOMAIN final
    /\ ~get_deterministic(selected, chunks[1])[Prefixed(AMFI_CODE, "arn_present")].value
    /\ get_deterministic(selected, chunks[2])[Prefixed(AMFI_CODE, "arn_present")].value
    /\ ~final[Prefixed(AMFI_CODE, "arn_present")].value

(***************************************************************************)
(* aggregate_results in the whole request                                  *)
(***************************************************************************)
\* p, in hundredths, is a nearest two-decimal value of num/den hundredths
NearestTo(p, num, den) == 2 * Abs(den * p - num) <= den

\* C10: the overall percentage is the mean of the guideline percentages of the
\* evaluations, rounded to two decimals; for no evaluation it is 100.0 with
\* status Pass and the three narrative lists empty.
C10_OverallIsMean ==
    pc = "done" =>
        IF guideline_evals = <<>>
        THEN /\ report.overall_accuracy_percentage = 10000
             /\ report.overall_status = "Pass"
             /\ report.evaluations = <<>>
             /\ report.what_is_right = <<>>
             /\ report.improvements = <<>>
             /\ report.anomalies_detected = <<>>
        ELSE /\ report.evaluations = guideline_evals
             /\ NearestTo(report.overall_accuracy_percentage,
                          SumSeq([i \in DOMAIN guideline_evals |->
                                     guideline_evals[i].guideline_percentage]),
                          Len(guideline_evals))

\* three evaluations whose percentages do not add up to a multiple of three:
\* the mean had to be rounded
C10_Witness ==
    /\ pc = "done"
    /\ Len(guideline_evals) = 3
    /\ SumSeq([i \in DOMAIN guideline_evals |->
                  guideline_evals[i].guideline_percentage]) % 3 # 0
    /\ report.overall_accuracy_percentage \notin
            {guideline_evals[i].guideline_percentage : i \in DOMAIN guideline_evals}

(***************************************************************************)
(* Scoring: build_guideline_eval and aggregate_results on bounded final    *)
(* maps                                                                    *)
(***************************************************************************)
\* the number of fields of category i of guideline g
CategorySize(g, i) == Len(Categories(g)[i].fields)

\* per category, all fields pass or none does
ExtremeCounts(g) ==
    {[i \in DOMAIN Categories(g) |-> IF i \in S THEN CategorySize(g, i) ELSE 0] :
        S \in SUBSET DOMAIN Categories(g)}

\* the numbers of passing fields per category: every number in one category,
\* all or none in the others
PassCounts(g) ==
    UNION {UNION {{[c EXCEPT ![i] = j] : j \in 0..CategorySize(g, i)} :
                     i \in DOMAIN Categories(g)} :
              c \in ExtremeCounts(g)}

AllPass(g) == [i \in DOMAIN Categories(g) |-> CategorySize(g, i)]

AllFail(g) == [i \in DOMAIN Categories(g) |-> 0]

\* pass counts for every selected guideline: one guideline takes every count
\* of PassCounts, each other one passes or fails as a whole
SelectionCounts(sel) ==
    UNION {{[h \in Range(sel) |->
                IF h = g THEN c ELSE IF h \in S THEN AllPass(h) ELSE AllFail(h)] :
               c \in PassCounts(g), S \in SUBSET (Range(sel) \ {g})} :
              g \in Range(sel)}

\* where a key's field stands: <<category index, index in the category>>
KeyPlace ==
    Table([k \in DOMAIN KeyOwner |->
              LET g == KeyOwner[k][1]
                  f == KeyOwner[k][2]
              IN  CHOOSE ij \in (DOMAIN Categories(g)) \X (1..Len(GuidelineFields(g))) :
                      /\ ij[2] \in DOMAIN Categories(g)[ij[1]].fields
                      /\ Categories(g)[ij[1]].fields[ij[2]] = f])

\* the first counts[g][i] fields of every category i pass
Passes(counts, k) == KeyPlace[k][2] <= counts[KeyOwner[k][1]][KeyPlace[k][1]]

\* a final map with the given pass counts; a sparse map holds no failing field
ScoredFinal(sel, counts, sparse) ==
    [k \in {x \in UNION {GuidelineKeys[g] : g \in Range(sel)} :
                ~sparse \/ Passes(counts, x)} |->
        IF Passes(counts, k)
        THEN Verdict(TRUE, 90, "matched text", "regex")
        ELSE Verdict(FALSE, 90, "claim found", "regex")]

InitScore ==
    /\ pc = "score"
    /\ client = FALSE
    /\ selected \in Selections
    /\ has_input = TRUE
    /\ chunks = <<>>
    /\ ChunkTextIdle
    /\ LegacyIdle
    /\ EndpointIdle
    /\ det = EmptyMap
    /\ llm_perc = NoClientPerception
    /\ requests = <<>>
    /\ merged_per_chunk = <<>>
    /\ \E counts \in SelectionCounts(selected), sparse \in BOOLEAN :
          final = ScoredFinal(selected, counts, sparse)
    /\ guideline_evals = <<>>
    /\ report = NoReport

SpecScore == InitScore /\ [][BuildReport]_vars

\* the field of key g_f is true in final; a field final does not hold is not
FinalTrue(g, f) == Prefixed(g, f) \in DOMAIN final /\ final[Prefixed(g, f)].value

\* the fields of category c of guideline g that are true in final
PassedFields(g, c) ==
    {j \in DOMAIN Categories(g)[c].fields : FinalTrue(g, Categories(g)[c].fields[j])}

Scored == pc = "done" /\ guideline_evals # <<>>

\* C6: every category percentage is 100 * (fields of the category true in
\* final) / (fields of the category), to two decimals; a field that final does
\* not hold counts as false.
C6_CategoryPercentage ==
    Scored =>
        \A i \in DOMAIN guideline_evals :
            /\ DOMAIN guideline_evals[i].categories = DOMAIN Categories(selected[i])
            /\ \A c \in DOMAIN Categories(selected[i]) :
                  /\ guideline_evals[i].categories[c].category = Categories(selected[i])[c].category
                  /\ NearestTo(guideline_evals[i].categories[c].category_percentage,
                               10000 * Cardinality(PassedFields(selected[i], c)),
                               CategorySize(selected[i], c))

\* a category with a field missing from final, of which one field in three
\* passes: 33.33
C6_Witness ==
    /\ Scored
    /\ \E i \in DOMAIN guideline_evals : \E c \in DOMAIN Categories(selected[i]) :
          /\ \E j \in DOMAIN Categories(selected[i])[c].fields :
                Prefixed(selected[i], Categories(selected[i])[c].fields[j]) \notin DOMAIN final
          /\ CategorySize(selected[i], c) = 3
          /\ Cardinality(PassedFields(selected[i], c)) = 1
          /\ guideline_evals[i].categories[c].category_percentage = 3333

\* the status the thresholds give a percentage
ThresholdsHold(pct, status) ==
    /\ status = "Pass" <=> pct >= 9500
    /\ status = "Warning" <=> (pct >= 8000 /\ pct < 9500)
    /\ status = "Fail" <=> pct < 8000

\* C7: at category, guideline and overall level the status is Pass exactly
\* from 95, Warning exactly from 80 and below 95, Fail exactly below 80.
C7_StatusThresholds ==
    pc = "done" =>
        /\ ThresholdsHold(report.overall_accuracy_percentage, report.overall_status)
        /\ \A i \in DOMAIN report.evaluations :
              /\ ThresholdsHold(report.evaluations[i].guideline_percentage,
                                report.evaluations[i].status)
              /\ \A c \in DOMAIN report.evaluations[i].categories :
                    ThresholdsHold(report.evaluations[i].categories[c].category_percentage,
                                   report.evaluations[i].categories[c].status)

\* a guideline at exactly 80.00 is Warning, with a category at 100 that is
\* Pass and one at 0 that is Fail, in a report that is Warning overall
C7_Witness ==
    /\ pc = "done"
    /\ report.overall_status = "Warning"
    /\ \E i \in DOMAIN report.evaluations :
          /\ report.evaluations[i].guideline_percentage = 8000
          /\ report.evaluations[i].status = "Warning"
          /\ \E c \in DOMAIN report.evaluations[i].categories :
                /\ report.evaluations[i].categories[c].category_percentage = 10000
                /\ report.evaluations[i].categories[c].status = "Pass"
          /\ \E c \in DOMAIN report.evaluations[i].categories :
                /\ report.evaluations[i].categories[c].category_percentage = 0
                /\ report.evaluations[i].categories[c].status = "Fail"

\* the sum of the category percentages of an evaluation
CategorySum(e) == SumSeq([c \in DOMAIN e.categories |-> e.categories[c].category_percentage])

\* C8: the guideline percentage is the plain mean of the category percentages,
\* to two decimals, whatever the number of fields of each category.
C8_EqualWeightMean ==
    Scored =>
        \A i \in DOMAIN guideline_evals :
            NearestTo(guideline_evals[i].guideline_percentage,
                      CategorySum(guideline_evals[i]),
                      Len(Categories(selected[i])))

\* a guideline whose percentage is not the fraction of its fields that pass
C8_Witness ==
    /\ Scored
    /\ \E i \in DOMAIN guideline_evals :
          ~NearestTo(guideline_evals[i].guideline_percentage,
                     10000 * SumSeq([c \in DOMAIN Categories(selected[i]) |->
                                        Cardinality(PassedFields(selected[i], c))]),
                     Len(GuidelineFields(selected[i])))

\* the field name starts with 'no_' or 'not_', for every field of the catalogs
NegationPrefixed ==
    Table([f \in DOMAIN NegationNamed |-> StartsWith(f, "no_") \/ StartsWith(f, "not_")])

\* the evidence build_guideline_eval reads for a field
FinalEvidence(g, f) == DictGet(final, Prefixed(g, f), NoneVerdict).evidence

\* per field of guideline g in catalog order: Entry(c, j) where Keep(c, j)
NotesOf(g, Keep(_, _), Entry(_, _)) ==
    Flatten([c \in DOMAIN Categories(g) |->
                Flatten([j \in DOMAIN Categories(g)[c].fields |->
                            IF Keep(c, j) THEN <<Entry(c, j)>> ELSE <<>>])])

\* C9: every field that is false in final adds its fail guidance to the
\* improvements, and the anomalies hold a note for exactly the fields that are
\* false in final and whose name starts with 'no_' or 'not_'.
C9_ImprovementsAndAnomalies ==
    Scored =>
        \A i \in DOMAIN guideline_evals :
            LET g == selected[i]
                Field(c, j) == Categories(g)[c].fields[j]
                Fails(c, j) == ~FinalTrue(g, Field(c, j))
                Anomalous(c, j) == Fails(c, j) /\ NegationPrefixed[Field(c, j)]
                FailGuidance(c, j) == <<GuidanceTable[g][Field(c, j)].fail>>
                Note(c, j) == <<"Potential violation in", Categories(g)[c].category,
                                Field(c, j), FinalEvidence(g, Field(c, j))>>
            IN  /\ guideline_evals[i].improvements = NotesOf(g, Fails, FailGuidance)
                /\ guideline_evals[i].anomalies = NotesOf(g, Anomalous, Note)

\* one evaluation with a failing 'no_' field that is noted, a failing field of
\* another name that is not, and a passing 'no_' field that is not
C9_Witness ==
    /\ Scored
    /\ \E i \in DOMAIN guideline_evals :
          LET g == selected[i]
              Noted(f) == \E a \in Range(guideline_evals[i].anomalies) : a[3] = f
          IN  /\ \E f \in Range(GuidelineFields(g)) :
                    ~FinalTrue(g, f) /\ NegationPrefixed[f] /\ Noted(f)
              /\ \E f \in Range(GuidelineFields(g)) :
                    ~FinalTrue(g, f) /\ ~NegationPrefixed[f] /\ ~Noted(f)
              /\ \E f \in Range(GuidelineFields(g)) :
                    FinalTrue(g, f) /\ NegationPrefixed[f] /\ ~Noted(f)

(***************************************************************************)
(* Narrative lists of the report                                           *)
(***************************************************************************)
\* the position of the first occurrence of entry e in the list l
FirstIndex(l, e) == Min({i \in DOMAIN l : l[i] = e})

\* out is l with duplicates removed, each entry at the place of its first
\* occurrence: nothing twice, nothing lost, nothing added, first occurrences in
\* their order
StableDedupOf(out, l) ==
    /\ \A i, j \in DOMAIN out : i # j => out[i] # out[j]
    /\ Range(out) = Range(l)
    /\ \A i, j \in DOMAIN out : i < j => FirstIndex(l, out[i]) < FirstIndex(l, out[j])

\* the lists of the evaluations under one key, concatenated in evaluation order
Concatenated(key) ==
    Flatten([i \in DOMAIN guideline_evals |->
                CASE key = "what_is_right" -> guideline_evals[i].what_is_right
                  [] key = "improvements" -> guideline_evals[i].improvements
                  [] key = "anomalies" -> guideline_evals[i].anomalies])

\* C11: each of what_is_right, improvements and anomalies_detected of the
\* report is the concatenation of the evaluations' lists in evaluation order
\* with duplicates removed and every entry kept at its first occurrence.
C11_StableDedup ==
    pc = "done" =>
        /\ StableDedupOf(report.what_is_right, Concatenated("what_is_right"))
        /\ StableDedupOf(report.improvements, Concatenated("improvements"))
        /\ StableDedupOf(report.anomalies_detected, Concatenated("anomalies"))

\* two guidelines report the same anomaly note, other notes stand between the
\* two, and the report holds the note once, before those
C11_Witness ==
    /\ pc = "done"
    /\ LET l == Concatenated("anomalies")
       IN  \E i, j, m \in DOMAIN l :
              /\ i < m /\ m < j
              /\ l[i] = l[j]
              /\ l[m] # l[i]
              /\ Len(report.anomalies_detected) < Len(l)
              /\ FirstIndex(report.anomalies_detected, l[i])
                    < FirstIndex(report.anomalies_detected, l[m])

(***************************************************************************)
(* chunk_text                                                              *)
(*                                                                         *)
(* A text is a sequence of characters; " " stands for every whitespace     *)
(* character.  A word and a chunk are sequences of characters too.         *)
(***************************************************************************)
MaxTextLen == 5
MaxChunkSize == 3
MaxIterations == 4

Characters == {" ", "a", "b"}

IsSpace(c) == c = " "

\* the longest prefix of s without whitespace
RECURSIVE NonSpacePrefix(_)
NonSpacePrefix(s) ==
    IF s = <<>> \/ IsSpace(Head(s)) THEN <<>>
    ELSE <<Head(s)>> \o NonSpacePrefix(Tail(s))

\* re.findall(r"\S+", s): the maximal runs of non-whitespace, left to right
RECURSIVE FindAllNonSpace(_)
FindAllNonSpace(s) ==
    IF s = <<>> THEN <<>>
    ELSE IF IsSpace(Head(s)) THEN FindAllNonSpace(Tail(s))
    ELSE LET w == NonSpacePrefix(s)
         IN  <<w>> \o FindAllNonSpace(SubSeq(s, Len(w) + 1, Len(s)))

\* " ".join(ws)
RECURSIVE JoinSpace(_)
JoinSpace(ws) ==
    IF ws = <<>> THEN <<>>
    ELSE IF Len(ws) = 1 THEN Head(ws)
    ELSE Head(ws) \o <<" ">> \o JoinSpace(Tail(ws))

RECURSIVE LStrip(_)
LStrip(s) == IF s # <<>> /\ IsSpace(Head(s)) THEN LStrip(Tail(s)) ELSE s

RECURSIVE RStrip(_)
RStrip(s) ==
    IF s # <<>> /\ IsSpace(s[Len(s)]) THEN RStrip(SubSeq(s, 1, Len(s) - 1)) ELSE s

\* s.strip()
Strip(s) == RStrip(LStrip(s))

\* a slice bound as Python reads it on a list of length n: a negative bound
\* counts from the end, and every bound is clamped to 0..n
SliceBound(i, n) ==
    IF i < 0 THEN (IF n + i < 0 THEN 0 ELSE n + i)
    ELSE IF i > n THEN n ELSE i

\* l[lo:hi] of Python, with 0-based bounds
PySlice(l, lo, hi) == SubSeq(l, SliceBound(lo, Len(l)) + 1, SliceBound(hi, Len(l)))

\* chunks or [text], without the fallback to [text]
ChunksOrTextNoFallback(cs, t) == cs

\* chunks or [text]
ChunksOrText(cs, t) == IF cs = <<>> THEN <<t>> ELSE cs

\* the offset after one iteration, advancing by the whole window
NextStartNoOverlap(st, size, ov) == st + size

\* the step start += overlap
NextStartByOverlap(st, size, ov) == st + ov

\* start += chunk_size - overlap
NextStart(st, size, ov) == st + size - ov

\* a call chunk_text(text, chunk_size, overlap)
InitChunkText ==
    /\ pc = "idle"
    /\ client = FALSE
    /\ selected = <<>>
    /\ has_input = FALSE
    /\ chunks = <<>>
    /\ det = EmptyMap
    /\ llm_perc = NoClientPerception
    /\ requests = <<>>
    /\ merged_per_chunk = <<>>
    /\ final = EmptyMap
    /\ guideline_evals = <<>>
    /\ report = NoReport
    /\ EndpointIdle
    /\ LegacyIdle
    /\ ct_pc = "call"
    /\ text \in UNION {[1..n -> Characters] : n \in 0..MaxTextLen}
    /\ chunk_size \in 1..MaxChunkSize
    /\ overlap \in 0..MaxChunkSize
    /\ ct_words = <<>>
    /\ start = 0
    /\ ct_chunks = <<>>

\* chunk_text up to the loop: the early return for a falsy text, else the
\* tokenisation
ChunkTextEnter ==
    /\ ct_pc = "call"
    /\ IF text = <<>>
       THEN /\ ct_chunks' = << <<>> >>
            /\ ct_pc' = "returned"
            /\ UNCHANGED <<ct_words, start>>
       ELSE /\ ct_words' = FindAllNonSpace(text)
            /\ start' = 0
            /\ ct_chunks' = <<>>
            /\ ct_pc' = "loop"
    /\ UNCHANGED <<text, chunk_size, overlap, core_vars, ep_vars>>
    /\ UNCHANGED lg_vars

\* one iteration of the while loop
ChunkTextIterate ==
    /\ ct_pc = "loop"
    /\ start < Len(ct_words)
    /\ Len(ct_chunks) < MaxIterations
    /\ LET end == Min({start + chunk_size, Len(ct_words)})
       IN  ct_chunks' = Append(ct_chunks, Strip(JoinSpace(PySlice(ct_words, start, end))))
    /\ start' = NextStart(start, chunk_size, overlap)
    /\ UNCHANGED <<ct_pc, text, chunk_size, overlap, ct_words, core_vars, ep_vars>>
    /\ UNCHANGED lg_vars

\* the loop has ended: return chunks or [text]
ChunkTextReturn ==
    /\ ct_pc = "loop"
    /\ ~(start < Len(ct_words))
    /\ ct_chunks' = ChunksOrText(ct_chunks, text)
    /\ ct_pc' = "returned"
    /\ UNCHANGED <<text, chunk_size, overlap, ct_words, start, core_vars, ep_vars>>
    /\ UNCHANGED lg_vars

NextChunkText == ChunkTextEnter \/ ChunkTextIterate \/ ChunkTextReturn

SpecChunkText == InitChunkText /\ [][NextChunkText]_vars

\* chunk_text has returned
Returned == ct_pc = "returned"

\* ceil(a / b) for a >= 0 and b > 0
CeilDiv(a, b) == (a + b - 1) \div b

\* C12, as stated: for a text of more tokens than the window and an overlap
\* below the window, chunk_text returns ceil((N - W)/(W - V)) + 1 chunks.
C12_WindowCount ==
    (Returned /\ overlap < chunk_size /\ Len(ct_words) > chunk_size) =>
        Len(ct_chunks) = CeilDiv(Len(ct_words) - chunk_size, chunk_size - overlap) + 1

\* three tokens, window 2, overlap 1: the formula gives two chunks, and
\* chunk_text returns three, the last one starting at the last token
C12_Witness ==
    /\ Returned
    /\ Len(ct_words) = 3 /\ chunk_size = 2 /\ overlap = 1
    /\ Len(ct_chunks) = 3
    /\ ct_chunks[3] = ct_words[3]

\* the token positions (from 1) of window i (from 1)
Window(i) ==
    LET first == (i - 1) * (chunk_size - overlap)
    IN  (first + 1)..Min({first + chunk_size, Len(ct_words)})

\* the tokens at the positions from lo to hi, joined by single spaces
TokensJoined(lo, hi) == JoinSpace([j \in 1..(hi - lo + 1) |-> ct_words[lo + j - 1]])

C14_NeverEmptyList ==
    Returned =>
        /\ Len(ct_chunks) >= 1
        /\ text = <<>> => ct_chunks = << <<>> >>

\* a text of whitespace only has no token and comes back whole as the one chunk
C14_Witness ==
    /\ Returned
    /\ text # <<>>
    /\ ct_words = <<>>
    /\ ct_chunks = <<text>>

\* C15, as stated: a call with overlap >= chunk_size on a non-empty text ends
\* in a ValueError; it neither enters the loop nor returns.
C15_FailFast ==
    (overlap >= chunk_size /\ text # <<>> /\ ct_pc # "call") => ct_pc = "ValueError"

\* with overlap >= chunk_size the loop has appended chunk after chunk and the
\* offset has not moved forward
C15_Witness ==
    /\ ct_pc = "loop"
    /\ overlap >= chunk_size
    /\ Len(ct_chunks) = MaxIterations
    /\ start <= 0
    /\ start < Len(ct_words)

(***************************************************************************)
(* The judge in the pipeline                                               *)
(***************************************************************************)
\* the number of schema-constrained requests among the first n requests
StructuredBefore(n) == Cardinality({j \in 1..n : requests[j] = "json_schema"})

\* C16, as stated: the unconstrained request is issued only after the
\* schema-constrained request has been tried STOP_AFTER_ATTEMPT times.
C16_RetriedBeforeFallback ==
    \A i \in DOMAIN requests :
        requests[i] = "free" => StructuredBefore(i - 1) = STOP_AFTER_ATTEMPT

\* the schema-constrained request failed, and the unconstrained request
\* followed the one and only schema-constrained request
C16_Witness ==
    /\ client
    /\ pc = "chunks"
    /\ requests = <<"json_schema", "free">>
    /\ llm_perc = DefaultPerception

\* C17, as stated: whatever the judge does, no exception leaves llm_json_call
\* or merge_perceptions, so that check_compliance goes on to its report.
C17_NeverCrashes == pc # "raised"

\* the schema-constrained request failed, the unconstrained answer holds an
\* item without "confidence" for a field of the catalog, and merge_perceptions
\* raised
C17_Witness ==
    /\ pc = "raised"
    /\ client
    /\ requests = <<"json_schema", "free">>
    /\ LET llm_items == DictGet(llm_perc.o, "detected_items", JObj(EmptyDict))
       IN  /\ llm_items.t = "obj"
           /\ \E k \in DOMAIN det \cap DOMAIN llm_items.o :
                 /\ JudgeVerdict(k).kind = "raise"
                 /\ llm_items.o[k] = JObj([x \in {"value"} |-> JBool(TRUE)])

\* the deterministic maps of the chunks processed so far
DeterministicPerChunk ==
    [i \in DOMAIN merged_per_chunk |-> get_deterministic(selected, chunks[i])]

\* C18: without a judge client no request is issued, the perception of every
\* chunk holds no detected item, every merged map is the deterministic map of
\* its chunk, and final is the highest-confidence aggregation of the
\* deterministic maps alone, with no verdict of source "llm".
C18_JudgeNotConfigured ==
    (~client /\ has_input /\ pc \in {"check_text", "chunks", "score", "done"}) =>
        /\ requests = <<>>
        /\ DictGet(llm_perc.o, "detected_items", JObj(EmptyDict)) = JObj(EmptyDict)
        /\ merged_per_chunk = DeterministicPerChunk
        /\ Aggregated =>
              /\ final = AggregateChunks(DeterministicPerChunk)
              /\ \A k \in DOMAIN final : final[k].source # "llm"

\* a document of two chunks checked without a client, one of its fields left
\* at the no-signal default that any judge verdict would have replaced
C18_Witness ==
    /\ ~client
    /\ Aggregated
    /\ Len(chunks) = 2
    /\ requests = <<>>
    /\ \E k \in DOMAIN final : final[k] = NoSignalHeuristic
    /\ \E k \in DOMAIN final : final[k].source = "regex"

(***************************************************************************)
(* The request handlers: check_text and classify_endpoint                  *)
(***************************************************************************)
MaxHints == 2

\* the product types a client names, and one it does not
HINTS == {"mutual_fund", "investing", "trading", "ipo", "fno_derivatives", "other"}

STOCK_HINTS == <<"investing", "trading", "ipo", "fno_derivatives">>

\* values of guideline_types: no usable text, lists of at most MaxHints hints,
\* a list that nests a list, and JSON values that are no list
HintInputs ==
    {NoHints, EmptyHints, MalformedHints}
    \cup {JsonHints(JList([i \in DOMAIN l |-> JStr(l[i])])) :
             l \in UNION {[1..n -> HINTS] : n \in 0..MaxHints}}
    \cup {JsonHints(j) :
             j \in {JList(<<JList(<<JStr("mutual_fund")>>)>>),
                    JStr("mutual_fund"), JStr("ipo and trading"), JStr("other"), JStr(""),
                    JObj([k \in {"mutual_fund"} |-> JBool(FALSE)]),
                    JObj([k \in {"trading"} |-> JNum(100)]),
                    JObj(EmptyDict), JNum(500), JNull, JBool(TRUE)}}

\* x in j of Python: membership in a list, a key of a dict, a substring of a
\* string; any other JSON value raises TypeError
PyIn(x, j) ==
    CASE j.t = "list" -> [ok |-> TRUE, b |-> JStr(x) \in Range(j.l)]
      [] j.t = "obj" -> [ok |-> TRUE, b |-> x \in DOMAIN j.o]
      [] j.t = "str" -> [ok |-> TRUE, b |-> Contains(j.s, x)]
      [] OTHER -> [ok |-> FALSE, b |-> FALSE]

\* list(set(l)): the entries of l once each, in an order that is not fixed
ListOfSet(l) == {sq \in [1..Cardinality(Range(l)) -> Range(l)] : Range(sq) = Range(l)}

\* lines 767-772: the lists selected can be when the try block is left
SelectedByHints(user_selected) ==
    LET mf == PyIn("mutual_fund", user_selected)
        s1 == IF mf.b THEN <<AMFI_CODE>> ELSE <<>>
        hit == \E i \in DOMAIN STOCK_HINTS : PyIn(STOCK_HINTS[i], user_selected).b
        s2 == IF hit THEN Append(s1, STOCK_CODE) ELSE s1
    IN  IF ~mf.ok THEN {<<>>} ELSE ListOfSet(s2)

\* SelectGuidelines with ASCI_CODE appended inside the try block
SelectGuidelinesAsciInTry(gt) ==
    IF gt.form = "json" /\ PyIn("mutual_fund", gt.parsed).ok
    THEN {Append(sel, ASCI_CODE) : sel \in SelectedByHints(gt.parsed)}
    ELSE {<<>>}

\* lines 764-775: the lists check_text can select for guideline_types gt
SelectGuidelines(gt) ==
    {Append(sel, ASCI_CODE) :
        sel \in (IF gt.form = "json" THEN SelectedByHints(gt.parsed) ELSE {<<>>})}

\* how staging the upload into the temporary file can end: written, open()
\* raised before the file was created, or the copy raised after
StageOutcomes == {"staged", "open_failed", "write_failed"}

\* the finally clause that removes the file only after a normal return
TempAfterFinallyOnReturnOnly(outcome, path, exists) ==
    IF outcome = "done" /\ path # "None" /\ exists THEN FALSE ELSE exists

\* finally: if temp_path and os.path.exists(temp_path): os.remove(temp_path)
TempAfterFinally(outcome, path, exists) ==
    IF path # "None" /\ exists THEN FALSE ELSE exists

\* what the judge answers to a classification request
ClassifyAnswers ==
    {JudgeError, JudgeText,
     JudgeJson(JObj([k \in {"detected_type"} |-> JStr("mutual_fund")])),
     JudgeJson(JObj([k \in {"detected_type"} |-> JStr("trading")])),
     JudgeJson(JObj([k \in {"detected_type"} |-> JStr("bonds")])),
     JudgeJson(JObj([k \in {"detected_type"} |-> JList(<<JStr("ipo")>>)])),
     JudgeJson(JObj([k \in {"detected_type"} |-> JNull])),
     JudgeJson(JObj(EmptyDict)),
     JudgeJson(JList(<<JStr("ipo")>>))}

\* llm_classify: "other" without a client and after any exception, else
\* parsed['detected_type'] whatever it is
llm_classify(cl, answer) ==
    IF ~cl THEN JStr("other")
    ELSE IF answer.kind = "json" /\ answer.parsed.t = "obj"
            /\ "detected_type" \in DOMAIN answer.parsed.o
         THEN answer.parsed.o["detected_type"]
         ELSE JStr("other")

\* whether Python can hash the value, as Counter has to
Hashable(j) == j.t \notin {"list", "obj"}

\* the value of the highest count that was counted last
MostCommonLastOfTies(ts) ==
    LET count(v) == Cardinality({i \in DOMAIN ts : ts[i] = v})
        best == {i \in DOMAIN ts : \A j \in DOMAIN ts : count(ts[i]) >= count(ts[j])}
    IN  ts[Max(best)]

\* Counter(ts).most_common(1)[0][0]: a value of the highest count, the one
\* counted first among several
MostCommon(ts) ==
    LET count(v) == Cardinality({i \in DOMAIN ts : ts[i] = v})
        best == {i \in DOMAIN ts : \A j \in DOMAIN ts : count(ts[i]) >= count(ts[j])}
    IN  ts[Min(best)]

\* the judge of the request handlers: as ProbeBehaviours, or its unconstrained
\* answer holds null for detected_items
EndpointBehaviours(sel) ==
    ProbeBehaviours(sel) \cup {Behaviour(JudgeError, JudgeJson(LooseAnswer(JNull)))}

\* a request to one of the two routes
InitEndpoints ==
    /\ pc = "request"
    /\ endpoint \in {"check-text", "classify-text"}
    /\ guideline_types \in (IF endpoint = "check-text" THEN HintInputs ELSE {NoHints})
    /\ upload \in {"file", "text", "none"}
    /\ has_input = (upload # "none")
    /\ client \in BOOLEAN
    /\ selected = <<>>
    /\ chunks \in (IF has_input THEN [1..1 -> {<<>>, <<"guaranteed 12% returns">>}]
                   ELSE {<<>>})
    /\ temp_path = "None"
    /\ temp_exists = FALSE
    /\ types = <<>>
    /\ detected = JNull
    /\ ChunkTextIdle
    /\ LegacyIdle
    /\ det = EmptyMap
    /\ llm_perc = NoClientPerception
    /\ requests = <<>>
    /\ merged_per_chunk = <<>>
    /\ final = EmptyMap
    /\ guideline_evals = <<>>
    /\ report = NoReport

\* check_text, lines 764-775
CheckTextSelect ==
    /\ pc = "request"
    /\ endpoint = "check-text"
    /\ selected' \in SelectGuidelines(guideline_types)
    /\ pc' = "stage"
    /\ UNCHANGED <<client, has_input, chunks, det, llm_perc, requests,
                   merged_per_chunk, final, guideline_evals, report, ct_vars, ep_vars>>
    /\ UNCHANGED lg_vars

\* check_text, lines 776-787: stage the file or the text in a temporary file
CheckTextStage ==
    /\ pc = "stage"
    /\ endpoint = "check-text"
    /\ IF upload = "none"
       THEN /\ pc' = "check_text"
            /\ UNCHANGED <<temp_path, temp_exists>>
       ELSE \E outcome \in StageOutcomes :
              /\ temp_path' = "tmp"
              /\ temp_exists' = (outcome # "open_failed")
              /\ pc' = IF outcome = "staged" THEN "check_text" ELSE "raised"
    /\ UNCHANGED <<client, selected, has_input, chunks, det, llm_perc, requests,
                   merged_per_chunk, final, guideline_evals, report, ct_vars,
                   endpoint, guideline_types, upload, types, detected>>
    /\ UNCHANGED lg_vars

\* check_text, lines 791-793: the finally clause, after a return or an exception
CheckTextFinally ==
    /\ pc \in {"done", "raised"}
    /\ endpoint = "check-text"
    /\ temp_exists' = TempAfterFinally(pc, temp_path, temp_exists)
    /\ pc' = IF pc = "done" THEN "finished" ELSE "failed"
    /\ UNCHANGED <<client, selected, has_input, chunks, det, llm_perc, requests,
                   merged_per_chunk, final, guideline_evals, report, ct_vars,
                   endpoint, guideline_types, upload, temp_path, types, detected>>
    /\ UNCHANGED lg_vars

\* classify_endpoint, lines 744-755
ClassifyStage ==
    /\ pc = "request"
    /\ endpoint = "classify-text"
    /\ CASE upload = "file" ->
              \E outcome \in StageOutcomes :
                 /\ temp_path' = "tmp"
                 /\ temp_exists' = (outcome # "open_failed")
                 /\ pc' = IF outcome = "staged" THEN "classify" ELSE "raised"
                 /\ UNCHANGED detected
         [] upload = "text" ->
              /\ pc' = "classify"
              /\ UNCHANGED <<temp_path, temp_exists, detected>>
         [] OTHER ->
              /\ detected' = JStr("other")
              /\ pc' = "done"
              /\ UNCHANGED <<temp_path, temp_exists>>
    /\ UNCHANGED <<client, selected, has_input, chunks, det, llm_perc, requests,
                   merged_per_chunk, final, guideline_evals, report, ct_vars,
                   endpoint, guideline_types, upload, types>>
    /\ UNCHANGED lg_vars

\* classify_endpoint, lines 756-757: classify_text(extracted)
ClassifyText ==
    /\ pc = "classify"
    /\ endpoint = "classify-text"
    /\ \E answers \in [DOMAIN chunks -> ClassifyAnswers] :
          LET ts == [i \in DOMAIN chunks |-> llm_classify(client, answers[i])]
          IN  /\ types' = ts
              /\ IF \E i \in DOMAIN ts : ~Hashable(ts[i])
                 THEN /\ pc' = "raised"
                      /\ UNCHANGED detected
                 ELSE /\ pc' = "done"
                      /\ detected' = MostCommon(ts)
    /\ UNCHANGED <<client, selected, has_input, chunks, det, llm_perc, requests,
                   merged_per_chunk, final, guideline_evals, report, ct_vars,
                   endpoint, guideline_types, upload, temp_path, temp_exists>>
    /\ UNCHANGED lg_vars

\* classify_endpoint, lines 758-760: the finally clause
ClassifyFinally ==
    /\ pc \in {"done", "raised"}
    /\ endpoint = "classify-text"
    /\ temp_exists' = TempAfterFinally(pc, temp_path, temp_exists)
    /\ pc' = IF pc = "done" THEN "finished" ELSE "failed"
    /\ UNCHANGED <<client, selected, has_input, chunks, det, llm_perc, requests,
                   merged_per_chunk, final, guideline_evals, report, ct_vars,
                   endpoint, guideline_types, upload, temp_path, types, detected>>
    /\ UNCHANGED lg_vars

ProcessChunkEndpoint == ProcessChunkWith(EndpointBehaviours(selected))

NextEndpoints ==
    \/ CheckTextSelect
    \/ CheckTextStage
    \/ ReturnEmpty
    \/ ProcessChunkEndpoint
    \/ Aggregate
    \/ BuildReport
    \/ CheckTextFinally
    \/ ClassifyStage
    \/ ClassifyText
    \/ ClassifyFinally

SpecEndpoints == InitEndpoints /\ [][NextEndpoints]_vars

\* the JSON value j holds the hint h: as an entry of a list, as a key of an
\* object, or inside a string
Includes(j, h) ==
    \/ j.t = "list" /\ \E i \in DOMAIN j.l : j.l[i] = JStr(h)
    \/ j.t = "obj" /\ h \in DOMAIN j.o
    \/ j.t = "str" /\ Contains(j.s, h)

HintsParse == guideline_types.form = "json"

\* how often the code g stands in the selected list
TimesSelected(g) == Cardinality({i \in DOMAIN selected : selected[i] = g})

\* C19: whatever guideline_types is, the selected list holds asci exactly
\* once, amfi exactly when the hints parse and include mutual_fund, stock
\* exactly when they parse and include one of investing, trading, ipo and
\* fno_derivatives, and no code twice.
C19_GuidelineSelection ==
    (endpoint = "check-text" /\ pc # "request") =>
        /\ TimesSelected(ASCI_CODE) = 1
        /\ \A g \in GUIDELINE_CODES : TimesSelected(g) <= 1
        /\ Range(selected) \subseteq GUIDELINE_CODES
        /\ AMFI_CODE \in Range(selected)
              <=> (HintsParse /\ Includes(guideline_types.parsed, "mutual_fund"))
        /\ STOCK_CODE \in Range(selected)
              <=> (HintsParse /\ \E h \in Range(STOCK_HINTS) :
                                     Includes(guideline_types.parsed, h))

\* the hints name mutual_fund and trading: three guidelines, asci the last
C19_Witness ==
    /\ endpoint = "check-text"
    /\ pc = "stage"
    /\ guideline_types = JsonHints(JList(<<JStr("trading"), JStr("mutual_fund")>>))
    /\ Len(selected) = 3
    /\ selected[1] = STOCK_CODE
    /\ selected[3] = ASCI_CODE

\* C20: when a handler has finished, by a return or by an exception, no
\* temporary file is left; a request with neither file nor text never has one.
C20_TempFileScoped ==
    /\ pc \in {"finished", "failed"} => ~temp_exists
    /\ upload = "none" => (temp_path = "None" /\ ~temp_exists)

\* check_text staged the document, the merge step raised on the judge's
\* answer, and the handler ended with the file removed
C20_Witness ==
    /\ endpoint = "check-text"
    /\ pc = "failed"
    /\ upload = "file"
    /\ temp_path = "tmp"
    /\ requests = <<"json_schema", "free">>
    /\ merged_per_chunk = <<>>
    /\ ~temp_exists

\* ---------------------------------------------------------------------------
\* classify_text over a document of several chunks

\* the enum of CLASSIFICATION_SCHEMA
CLASSIFICATION_LABELS ==
    <<"mutual_fund", "investing", "trading", "ipo", "fno_derivatives", "other">>

MaxClassifyChunks == 3

\* classify_text is entered with the chunks chunk_text(text, 200) returned,
\* never an empty list
InitClassify ==
    /\ pc = "classify"
    /\ endpoint = "classify-text"
    /\ guideline_types = NoHints
    /\ upload = "text"
    /\ has_input = TRUE
    /\ client \in BOOLEAN
    /\ selected = <<>>
    /\ chunks \in SeqsUpTo({<<>>}, MaxClassifyChunks)
    /\ temp_path = "None"
    /\ temp_exists = FALSE
    /\ types = <<>>
    /\ detected = JNull
    /\ ChunkTextIdle
    /\ LegacyIdle
    /\ det = EmptyMap
    /\ llm_perc = NoClientPerception
    /\ requests = <<>>
    /\ merged_per_chunk = <<>>
    /\ final = EmptyMap
    /\ guideline_evals = <<>>
    /\ report = NoReport

NextClassify == ClassifyText \/ ClassifyFinally

SpecClassify == InitClassify /\ [][NextClassify]_vars

ClassifyReturned == endpoint = "classify-text" /\ pc \in {"done", "finished"}

\* C21: classify_text never raises, and the label it returns is one of
\* mutual_fund, investing, trading, ipo, fno_derivatives and other, whatever
\* the judge answers.
C21_ClosedLabelSet ==
    /\ endpoint = "classify-text" => pc \notin {"raised", "failed"}
    /\ ClassifyReturned =>
          \E i \in DOMAIN CLASSIFICATION_LABELS : detected = JStr(CLASSIFICATION_LABELS[i])

\* the judge answered {"detected_type": "bonds"} for the one chunk, and
\* classify_text returned "bonds"
C21_Witness ==
    /\ ClassifyReturned
    /\ client
    /\ types = <<JStr("bonds")>>
    /\ detected = JStr("bonds")

VotesFor(v) == Cardinality({i \in DOMAIN types : types[i] = v})

FirstVote(v) == Min({i \in DOMAIN types : types[i] = v})

\* C22: the label returned has the most votes; of several labels with the
\* most votes it is the one voted first; without a judge every chunk votes
\* other and other is returned.
C22_MajorityVote ==
    ClassifyReturned =>
        /\ detected \in Range(types)
        /\ \A v \in Range(types) :
              /\ VotesFor(detected) >= VotesFor(v)
              /\ (v # detected /\ VotesFor(v) = VotesFor(detected))
                    => FirstVote(detected) < FirstVote(v)
        /\ ~client => /\ \A i \in DOMAIN types : types[i] = JStr("other")
                      /\ detected = JStr("other")

\* three chunks, three different votes: the first chunk's label is returned
C22_Witness ==
    /\ ClassifyReturned
    /\ types = <<JStr("trading"), JStr("mutual_fund"), JStr("other")>>
    /\ detected = JStr("trading")

\* ---------------------------------------------------------------------------
\* the deterministic evaluators and the no-signal convention

\* the chunk the map det was computed from
DetChunk ==
    IF pc = "raised" THEN chunks[Len(merged_per_chunk) + 1]
    ELSE chunks[Len(merged_per_chunk)]

\* the evaluator of field f finds a signal in the chunk: some phrase of the
\* chunk makes it answer otherwise than it answers on an empty text
Signalled(g, f, chunk) ==
    \E i \in DOMAIN chunk : RegexFunc(g, f, <<chunk[i]>>) # RegexFunc(g, f, <<>>)

Undeterminable == {"warning_font_size_ok", "av_duration_ok"}

\* C23: a field whose evaluator finds no signal in the chunk is reported false
\* with confidence 0, no field is reported false with a confidence above 0
\* without a signal, and the fields no text can determine are always false
\* with confidence 0.
C23_NoSignalConvention ==
    det # EmptyMap =>
        \A k \in DOMAIN det :
            LET g == KeyOwner[k][1]
                f == KeyOwner[k][2]
            IN  /\ ~Signalled(g, f, DetChunk)
                      => (det[k].value = FALSE /\ det[k].confidence = 0)
                /\ (det[k].value = FALSE /\ det[k].confidence > 0)
                      => Signalled(g, f, DetChunk)
                /\ f \in Undeterminable
                      => (det[k].value = FALSE /\ det[k].confidence = 0)

\* an empty chunk: no ARN in it, and arn_present is false with confidence 0.9
C23_Witness ==
    /\ {AMFI_CODE, STOCK_CODE} \subseteq Range(selected)
    /\ det # EmptyMap
    /\ DetChunk = <<>>
    /\ det["amfi_arn_present"] = Verdict(FALSE, 90, "", "regex")
    /\ det["stock_av_duration_ok"] = Verdict(FALSE, 0, "", "heuristic")

\* ---------------------------------------------------------------------------
\* check_compliance with a judge that speaks about the disclosure and the
\* assured-returns fields

\* the fields the judge reports on, per guideline
ScenarioFields(g) ==
    CASE g = STOCK_CODE -> {"standard_warning_present", "name_address_reg",
                            "no_assured_returns"}
      [] g = AMFI_CODE -> {"no_assured_returns"}
      [] OTHER -> {}

\* confidences of the judge: above 0.9 and in range, and out of range
ScenarioConfidences == {95, 120}

\* the judge fails, or its schema-constrained answer holds one verdict on one
\* of the scenario fields of a selected guideline
ScenarioBehaviours(sel) ==
    {Behaviour(JudgeError, JudgeError)}
    \cup UNION {{Behaviour(JudgeJson(FullAnswer(OneItem(Prefixed(g, f), ValidItem(v, c)))),
                           JudgeError) :
                    f \in ScenarioFields(g), v \in BOOLEAN, c \in ScenarioConfidences} :
                g \in Range(sel)}

InitJudged ==
    /\ pc = "check_text"
    /\ client \in BOOLEAN
    /\ selected \in Selections
    /\ has_input = TRUE
    /\ chunks \in SeqsUpTo(DocChunks, MaxChunks)
    /\ TypeInit

ProcessChunkJudged == ProcessChunkWith(ScenarioBehaviours(selected))

NextJudged == ProcessChunkJudged \/ Aggregate \/ BuildReport

SpecJudged == InitJudged /\ [][NextJudged]_vars

InRange(c) == 0 <= c /\ c <= 100

\* the sub_criteria entries of all guideline evaluations
SubCriteria ==
    UNION {UNION {Range(guideline_evals[i].categories[j].sub_criteria) :
                     j \in DOMAIN guideline_evals[i].categories} :
              i \in DOMAIN guideline_evals}

\* C24: every verdict of every merged map and of the final map, and every
\* sub_criteria entry of the report, has a confidence between 0 and 1.
C24_ConfidenceInRange ==
    /\ \A i \in DOMAIN merged_per_chunk : \A k \in DOMAIN merged_per_chunk[i] :
          InRange(merged_per_chunk[i][k].confidence)
    /\ \A k \in DOMAIN final : InRange(final[k].confidence)
    /\ \A sc \in SubCriteria : InRange(sc.confidence)

\* the judge's schema-valid answer gave no_assured_returns confidence 1.2, and
\* the report carries it in a sub_criteria entry
C24_Witness ==
    /\ pc = "done"
    /\ requests = <<"json_schema">>
    /\ "stock_no_assured_returns" \in DOMAIN final
    /\ final["stock_no_assured_returns"].confidence = 120
    /\ final["stock_no_assured_returns"].source = "llm"
    /\ \E sc \in SubCriteria : sc.name = "no_assured_returns" /\ sc.confidence = 120

\* the chunk matches the SEBI registration pattern and a standard warning
DisclosureChunk(ch) ==
    Search(SEBI_REG_REGEX, ch).found /\ SearchFirst(WARNING_PATTERNS, ch).found

DisclosureKeys ==
    {Prefixed(STOCK_CODE, "standard_warning_present"),
     Prefixed(STOCK_CODE, "name_address_reg")}

\* C25: with stock selected and some chunk matching both the standard
\* warning and the SEBI registration number, the final verdicts of
\* stock_standard_warning_present and stock_name_address_reg are true, of
\* source regex and of confidence 0.9 at least, whatever the judge answered.
C25_DisclosureScenario ==
    (/\ pc \in {"score", "done"}
     /\ STOCK_CODE \in Range(selected)
     /\ \E i \in DOMAIN chunks : DisclosureChunk(chunks[i]))
        => \A k \in DisclosureKeys :
              /\ final[k].value
              /\ final[k].source = "regex"
              /\ final[k].confidence >= 90

\* the first chunk holds the warning and the registration number, the judge
\* called the warning absent with confidence 0.95 on the second chunk, and the
\* final verdict is the judge's
C25_Witness ==
    /\ pc = "done"
    /\ STOCK_CODE \in Range(selected)
    /\ Len(chunks) = 2
    /\ DisclosureChunk(chunks[1])
    /\ merged_per_chunk[1]["stock_standard_warning_present"].value
    /\ merged_per_chunk[1]["stock_standard_warning_present"].source = "regex"
    /\ final["stock_standard_warning_present"] = Verdict(FALSE, 95, "judge", "llm")

AssuredClaim == "guaranteed 12% returns"

\* the selected guidelines whose catalog defines no_assured_returns
DefineNoAssuredReturns ==
    {g \in Range(selected) : "no_assured_returns" \in Range(GuidelineFields(g))}

\* C26: when some chunk holds 'guaranteed 12% returns', no_assured_returns of
\* every selected guideline that defines it ends false, and anomalies_detected
\* holds an entry naming the field and the category Prohibitions.
C26_NegationAnomaly ==
    (pc = "done" /\ \E i \in DOMAIN chunks : AssuredClaim \in Range(chunks[i]))
        => /\ \A g \in DefineNoAssuredReturns :
                 ~final[Prefixed(g, "no_assured_returns")].value
           /\ DefineNoAssuredReturns # {}
                 => \E j \in DOMAIN report.anomalies_detected :
                       /\ report.anomalies_detected[j][2] = "Prohibitions"
                       /\ report.anomalies_detected[j][3] = "no_assured_returns"

\* amfi selected, no judge, the one chunk holds the claim: the amfi field is
\* true with confidence 0.9 and the report has no anomaly
C26_Witness ==
    /\ pc = "done"
    /\ ~client
    /\ selected = <<AMFI_CODE, ASCI_CODE>>
    /\ chunks = <<<<AssuredClaim>>>>
    /\ final["amfi_no_assured_returns"] = Verdict(TRUE, 90, "", "regex")
    /\ report.anomalies_detected = <<>>

\* ---------------------------------------------------------------------------
\* termination of chunk_text

\* a call that has started runs on: the interpreter takes the next step of
\* the function whenever there is one
SpecChunkTextFair == SpecChunkText /\ WF_vars(NextChunkText)

OverlapBelowWindow == 0 <= overlap /\ overlap < chunk_size

\* C27: with 0 <= overlap < chunk_size every iteration of the loop moves the
\* start offset forward by chunk_size - overlap, the loop makes at most
\* ceil(N / (chunk_size - overlap)) iterations for N tokens, and chunk_text
\* returns.
C27_Terminates ==
    /\ [][(ChunkTextIterate /\ OverlapBelowWindow)
             => (start' = start + (chunk_size - overlap) /\ start' > start)]_vars
    /\ []((ct_pc = "loop" /\ OverlapBelowWindow)
             => /\ start = Len(ct_chunks) * (chunk_size - overlap)
                /\ Len(ct_chunks) <= CeilDiv(Len(ct_words), chunk_size - overlap))
    /\ (OverlapBelowWindow ~> Returned)

\* three tokens, window 3, overlap 2: the loop ran three times, ceil(3 / 1),
\* and returned
C27_Witness ==
    /\ Returned
    /\ Len(ct_words) = 3 /\ chunk_size = 3 /\ overlap = 2
    /\ start = 3
    /\ Len(ct_chunks) = CeilDiv(Len(ct_words), chunk_size - overlap)

\* ---------------------------------------------------------------------------
\* the keys of the maps of check_compliance

\* C28: the deterministic map, every merged map and the final map have
\* exactly the keys guideline_field of the categorized fields of the selected
\* guidelines, one key per guideline and field; a key that only the judge
\* names never enters them, and build_guideline_eval finds every field it asks
\* for in final.
C28_FieldSet ==
    LET expected == UNION {{Prefixed(g, f) : f \in Range(GuidelineFields(g))} :
                              g \in Range(selected)}
    IN  /\ Cardinality(expected)
              = SumSeq([i \in DOMAIN selected |-> Len(GuidelineFields(selected[i]))])
        /\ det # EmptyMap => DOMAIN det = expected
        /\ \A i \in DOMAIN merged_per_chunk : DOMAIN merged_per_chunk[i] = expected
        /\ Aggregated =>
              /\ DOMAIN final = expected
              /\ \A g \in Range(selected) : \A f \in Range(GuidelineFields(g)) :
                    FieldObj(g, final, f).source # "none"

\* the judge's unconstrained answer held a verdict under a key of no catalog,
\* and the key is in no map
C28_Witness ==
    /\ pc = "done"
    /\ requests = <<"json_schema", "free">>
    /\ ForeignKey \in DOMAIN llm_perc.o["detected_items"].o
    /\ ForeignKey \notin DOMAIN final
    /\ Len(selected) = 3
    /\ Cardinality(DOMAIN final) = 51

\* ---------------------------------------------------------------------------
\* the requests of one llm_json_call

\* the request lists of one call: none without a client, the schema-constrained
\* request alone, or the schema-constrained and then the unconstrained one
RequestLists == {<<>>, <<"json_schema">>, <<"json_schema", "free">>}

StructuredFailed(b, sel) ==
    ~(b.structured.kind = "json" /\ SchemaValid(b.structured.parsed, sel))

\* C29: whatever the judge does, one call of llm_json_call issues at most two
\* requests, the schema-constrained one first and the unconstrained one only
\* after the schema-constrained one failed, and it returns a mapping and
\* raises nothing.
C29_BoundedJudgeTraffic ==
    /\ requests \in RequestLists
    /\ llm_perc.t = "obj"
    /\ pc = "check_text" =>
          \A b \in JudgeBehaviours(selected) :
              LET r == llm_json_call(client, b, selected)
              IN  /\ ~r.raised
                  /\ r.result.t = "obj"
                  /\ r.requests \in RequestLists
                  /\ client <=> r.requests # <<>>
                  /\ r.requests = <<"json_schema", "free">>
                        <=> (client /\ StructuredFailed(b, selected))

\* the schema-constrained request failed, the unconstrained answer was the
\* object {}, and llm_json_call returned it after two requests
C29_Witness ==
    /\ client
    /\ pc = "chunks"
    /\ requests = <<"json_schema", "free">>
    /\ llm_perc = JObj(EmptyDict)

(***************************************************************************)
(* The legacy text flow: check_compliance of                               *)
(* src/jswcentura_backend/app.py.  Accuracies are whole numbers; a JSON    *)
(* number is counted in hundredths as everywhere, and overall_accuracy, a  *)
(* quotient of floats, is kept as the pair <<dividend, divisor>>.          *)
(***************************************************************************)
MaxLegacyLen == 3
MaxLegacyChunkSize == 2

\* re.sub(r'\s+', ' ', input_text).strip()
NormalizeSpace(t) == Strip(JoinSpace(FindAllNonSpace(t)))

\* [' '.join(words[i:i + chunk_size]) for i in range(0, len(words), chunk_size)]
RECURSIVE JoinedWindows(_, _)
JoinedWindows(words, size) ==
    IF words = <<>> THEN <<>>
    ELSE <<JoinSpace(PySlice(words, 0, size))>>
         \o JoinedWindows(SubSeq(words, size + 1, Len(words)), size)

\* chunk_text of the legacy module: windows without overlap, stripped, the
\* empty ones left out
chunk_text_legacy(t, size) ==
    LET joined == JoinedWindows(FindAllNonSpace(t), size)
        NonEmpty(c) == Strip(c) # <<>>
        kept == SelectSeq(joined, NonEmpty)
    IN  [i \in DOMAIN kept |-> Strip(kept[i])]

\* the integer strings the bounded judge writes, with their values
IntegerStrings == {<<"90", 90>>}

\* int(x): ok with the integer, truncated towards zero, or an exception
PyInt(j) ==
    CASE j.t = "num" ->
            [ok |-> TRUE, n |-> IF j.n >= 0 THEN j.n \div 100 ELSE -((-j.n) \div 100)]
      [] j.t = "bool" -> [ok |-> TRUE, n |-> IF j.b THEN 1 ELSE 0]
      [] j.t = "str" ->
            IF \E p \in IntegerStrings : p[1] = j.s
            THEN [ok |-> TRUE, n |-> (CHOOSE p \in IntegerStrings : p[1] = j.s)[2]]
            ELSE [ok |-> FALSE, n |-> 0]
      [] OTHER -> [ok |-> FALSE, n |-> 0]

\* the characters of the strings the bounded judge writes where a list is due
CharsOf(s) == IF s = "ok" THEN {"o", "k"} ELSE {}

\* s.update(l) for a list l: element after element, until one is unhashable
RECURSIVE UpdateFrom(_, _)
UpdateFrom(s, l) ==
    IF l = <<>> THEN [raised |-> FALSE, set |-> s]
    ELSE IF ~Hashable(Head(l)) THEN [raised |-> TRUE, set |-> s]
    ELSE UpdateFrom(s \cup {Head(l)}, Tail(l))

\* s.update(j): the elements of a list, the characters of a string, the keys
\* of a dict; TypeError for what cannot be iterated
SetUpdate(s, j) ==
    CASE j.t = "list" -> UpdateFrom(s, j.l)
      [] j.t = "str" -> [raised |-> FALSE, set |-> s \cup {JStr(c) : c \in CharsOf(j.s)}]
      [] j.t = "obj" -> [raised |-> FALSE, set |-> s \cup {JStr(k) : k \in DOMAIN j.o}]
      [] OTHER -> [raised |-> TRUE, set |-> s]

\* the strings the bounded judge lists, in the order sorted() gives them
StringOrder == <<"add disclaimer", "fix", "k", "no disclaimer", "o">>

\* sorted(list(s)): TypeError when s mixes strings with other values
Sorted(s) ==
    IF \A x \in s : x.t = "str"
    THEN LET Listed(x) == JStr(x) \in s
             names == SelectSeq(StringOrder, Listed)
         IN  [ok |-> TRUE, l |-> [i \in DOMAIN names |-> JStr(names[i])]]
    ELSE IF Cardinality(s) = 1
         THEN [ok |-> TRUE, l |-> <<CHOOSE x \in s : TRUE>>]
         ELSE [ok |-> FALSE, l |-> <<>>]

\* what the collaborators do for one chunk: one of them raises, or the judge
\* returns text that is not JSON, or text that parses to the JSON value j
LegacyFailure(stage) == [kind |-> "error", stage |-> stage]
LegacyText == [kind |-> "text", stage |-> "parse"]
LegacyJson(j) == [kind |-> "json", stage |-> "none", parsed |-> j]

LegacyAnswer(acc, impr, anom, right) ==
    JObj([k \in {"accuracy", "improvements", "anomalies", "what_is_right"} |->
            CASE k = "accuracy" -> acc
              [] k = "improvements" -> impr
              [] k = "anomalies" -> anom
              [] k = "what_is_right" -> right])

LegacyOutcomes ==
    { LegacyFailure("embedding"), LegacyFailure("query"), LegacyFailure("judge"),
      LegacyText,
      LegacyJson(LegacyAnswer(JNum(8000), JList(<<JStr("fix")>>), JList(<<>>), JStr("ok"))),
      LegacyJson(LegacyAnswer(JNum(8570), JList(<<JStr("add disclaimer")>>),
                              JList(<<JStr("no disclaimer")>>), JStr(""))),
      LegacyJson(JObj(EmptyDict)),
      LegacyJson(JObj([k \in {"accuracy"} |-> JStr("n/a")])),
      LegacyJson(LegacyAnswer(JNum(8000), JNull, JList(<<>>), JStr("ok"))),
      LegacyJson(LegacyAnswer(JNum(8000), JList(<<JNum(100), JStr("fix")>>),
                              JList(<<>>), JStr("ok"))),
      LegacyJson(JList(<<>>)) }

\* the entry of one chunk in file_results['chunks']
ChunkEntry(idx, chunk, acc, impr, anom, right) ==
    [chunk_idx |-> idx, chunk |-> chunk, accuracy |-> acc, improvements |-> impr,
     anomalies |-> anom, what_is_right |-> right]

\* the entry the except clause of the chunk loop appends
ErrorEntry(idx, chunk, reason) ==
    ChunkEntry(idx, chunk, 0, JList(<<JStr("Error: " \o reason)>>), JList(<<>>), JStr(""))

\* the three results check_compliance appends for a file without the loop
NoContentResult ==
    [overall_accuracy |-> <<100, 1>>,
     overall_improvements |-> <<JStr("No content to check.")>>,
     overall_what_is_right |-> <<JStr("No content to check.")>>,
     overall_anomalies_detected |-> <<>>]

FileErrorResult ==
    [overall_accuracy |-> <<0, 1>>,
     overall_improvements |-> <<JStr("File error")>>,
     overall_anomalies_detected |-> <<>>,
     overall_what_is_right |-> <<>>]

\* the body of the chunk loop with its except clause: what it appends to
\* file_results['chunks'] and what it leaves in the accumulators
ChunkStep(idx, chunk, o, total, rights, imprs, anoms) ==
    LET same(reason) ==
            [entries |-> <<ErrorEntry(idx, chunk, reason)>>, total |-> total,
             rights |-> rights, imprs |-> imprs, anoms |-> anoms]
    IN  IF o.kind = "error" THEN same(o.stage)
        ELSE IF o.kind = "text" THEN same("JSONDecodeError")
        ELSE IF o.parsed.t # "obj" THEN same("AttributeError")
        ELSE
        LET parsed == o.parsed.o
            acc    == PyInt(DictGet(parsed, "accuracy", JNum(0)))
            improvements == DictGet(parsed, "improvements", JList(<<>>))
            anomalies    == DictGet(parsed, "anomalies", JList(<<>>))
            right        == DictGet(parsed, "what_is_right", JStr(""))
            entry  == ChunkEntry(idx, chunk, acc.n, improvements, anomalies, right)
            rights2 == IF PyTruthy(right) THEN Append(rights, right) ELSE rights
            u1 == SetUpdate(imprs, improvements)
            u2 == SetUpdate(anoms, anomalies)
        IN  IF ~acc.ok THEN same("ValueError")
            ELSE IF u1.raised
            THEN [entries |-> <<entry, ErrorEntry(idx, chunk, "TypeError")>>,
                  total |-> total + acc.n, rights |-> rights2,
                  imprs |-> u1.set, anoms |-> anoms]
            ELSE IF u2.raised
            THEN [entries |-> <<entry, ErrorEntry(idx, chunk, "TypeError")>>,
                  total |-> total + acc.n, rights |-> rights2,
                  imprs |-> u1.set, anoms |-> u2.set]
            ELSE [entries |-> <<entry>>, total |-> total + acc.n, rights |-> rights2,
                  imprs |-> u1.set, anoms |-> u2.set]

\* the texts a file can hold, and a file extract_text_from_file raises on
LegacyInputs ==
    {[kind |-> "unreadable", text |-> <<>>]}
    \cup {[kind |-> "text", text |-> t] :
             t \in UNION {[1..n -> Characters] : n \in 0..MaxLegacyLen}}

\* a call check_compliance([file_path], chunk_size)
InitLegacy ==
    /\ pc = "idle"
    /\ client = FALSE
    /\ selected = <<>>
    /\ has_input = FALSE
    /\ chunks = <<>>
    /\ det = EmptyMap
    /\ llm_perc = NoClientPerception
    /\ requests = <<>>
    /\ merged_per_chunk = <<>>
    /\ final = EmptyMap
    /\ guideline_evals = <<>>
    /\ report = NoReport
    /\ EndpointIdle
    /\ ChunkTextIdle
    /\ lg_pc = "call"
    /\ input_text \in LegacyInputs
    /\ lg_chunk_size \in 1..MaxLegacyChunkSize
    /\ lg_plan \in [1..Len(chunk_text_legacy(NormalizeSpace(input_text.text), lg_chunk_size))
                     -> LegacyOutcomes]
    /\ lg_chunks = <<>>
    /\ chunk_idx = 0
    /\ file_chunks = <<>>
    /\ total_score = 0
    /\ all_what_is_right = <<>>
    /\ all_improvements = {}
    /\ all_anomalies = {}
    /\ overall_results = NoReport

\* lines 311-317: extraction, normalisation, chunking, the no-content result
LegacyEnter ==
    /\ lg_pc = "call"
    /\ IF input_text.kind = "unreadable"
       THEN /\ overall_results' = FileErrorResult
            /\ lg_pc' = "done"
            /\ UNCHANGED lg_chunks
       ELSE LET cs == chunk_text_legacy(NormalizeSpace(input_text.text), lg_chunk_size)
            IN  /\ lg_chunks' = cs
                /\ IF cs = <<>>
                   THEN overall_results' = NoContentResult /\ lg_pc' = "done"
                   ELSE lg_pc' = "loop" /\ UNCHANGED overall_results
    /\ UNCHANGED <<input_text, lg_chunk_size, lg_plan, chunk_idx, file_chunks,
                   total_score, all_what_is_right, all_improvements, all_anomalies>>
    /\ UNCHANGED <<core_vars, ct_vars, ep_vars>>

\* lines 325-385: one pass of the chunk loop
LegacyChunk ==
    /\ lg_pc = "loop"
    /\ chunk_idx < Len(lg_chunks)
    /\ LET r == ChunkStep(chunk_idx, lg_chunks[chunk_idx + 1], lg_plan[chunk_idx + 1],
                          total_score, all_what_is_right, all_improvements,
                          all_anomalies)
       IN  /\ file_chunks' = file_chunks \o r.entries
           /\ total_score' = r.total
           /\ all_what_is_right' = r.rights
           /\ all_improvements' = r.imprs
           /\ all_anomalies' = r.anoms
    /\ chunk_idx' = chunk_idx + 1
    /\ UNCHANGED <<lg_pc, input_text, lg_chunk_size, lg_plan, lg_chunks, overall_results>>
    /\ UNCHANGED <<core_vars, ct_vars, ep_vars>>

\* lines 386-394: the file's result, or the file error of the outer except
LegacyFinish ==
    /\ lg_pc = "loop"
    /\ chunk_idx = Len(lg_chunks)
    /\ LET imprs == Sorted(all_improvements)
           anoms == Sorted(all_anomalies)
           joins == \A i \in DOMAIN all_what_is_right : all_what_is_right[i].t = "str"
       IN  overall_results' =
              IF imprs.ok /\ anoms.ok /\ joins
              THEN [chunks |-> file_chunks,
                    overall_accuracy |-> <<total_score, Len(lg_chunks)>>,
                    overall_improvements |-> imprs.l,
                    overall_anomalies_detected |-> anoms.l,
                    overall_what_is_right |-> all_what_is_right]
              ELSE FileErrorResult
    /\ lg_pc' = "done"
    /\ UNCHANGED <<input_text, lg_chunk_size, lg_plan, lg_chunks, chunk_idx, file_chunks,
                   total_score, all_what_is_right, all_improvements, all_anomalies>>
    /\ UNCHANGED <<core_vars, ct_vars, ep_vars>>

NextLegacy == LegacyEnter \/ LegacyChunk \/ LegacyFinish

SpecLegacy == InitLegacy /\ [][NextLegacy]_vars

\* the failures the claim names: embedding, vector query, judge call, JSON parse
NamedFailure(o) == o.kind \in {"error", "text"}

LegacyReturned == lg_pc = "done" /\ input_text.kind = "text"

\* C30: a chunk whose embedding, query, judge call or JSON parse fails is
\* recorded with accuracy 0 and an error improvement and the file goes on;
\* the result holds one entry per chunk, in order, overall_accuracy is the
\* sum of the entries' accuracies over the number of chunks, and a file
\* without a chunk gets 100.0.
C30_ChunkFailureIsolated ==
    LegacyReturned =>
        IF lg_chunks = <<>> THEN overall_results.overall_accuracy = <<100, 1>>
        ELSE /\ "chunks" \in DOMAIN overall_results
             /\ Len(overall_results.chunks) = Len(lg_chunks)
             /\ \A i \in DOMAIN lg_chunks :
                   LET e == overall_results.chunks[i]
                   IN  /\ e.chunk_idx = i - 1
                       /\ e.chunk = lg_chunks[i]
                       /\ NamedFailure(lg_plan[i])
                             => /\ e.accuracy = 0
                                /\ e.improvements.t = "list"
                                /\ Len(e.improvements.l) = 1
                       /\ ~NamedFailure(lg_plan[i]) \/ e.what_is_right = JStr("")
             /\ overall_results.overall_accuracy[1] * Len(lg_chunks)
                   = SumSeq([i \in DOMAIN lg_chunks |-> overall_results.chunks[i].accuracy])
                        * overall_results.overall_accuracy[2]

\* two chunks: the embedding of the first fails, the judge's answer for the
\* second carries accuracy 80 and improvements null.  The second chunk has
\* two entries, the answer's and the error's, and counts 80.
C30_Witness ==
    /\ LegacyReturned
    /\ Len(lg_chunks) = 2
    /\ lg_plan[1] = LegacyFailure("embedding")
    /\ lg_plan[2] = LegacyJson(LegacyAnswer(JNum(8000), JNull, JList(<<>>), JStr("ok")))
    /\ Len(overall_results.chunks) = 3
    /\ [i \in 1..3 |-> overall_results.chunks[i].chunk_idx] = <<0, 1, 1>>
    /\ [i \in 1..3 |-> overall_results.chunks[i].accuracy] = <<0, 80, 0>>
    /\ overall_results.overall_accuracy = <<80, 2>>
====
